---------------------------- MODULE Spec2Model ----------------------------
(***************************************************************************)
(* A model of the ATS scorer: the score composer (scorer.py) and the       *)
(* skill matcher (matcher.py).                                             *)
(*                                                                         *)
(* Python floats are modelled as exact rationals [n |-> Int, d |-> Nat],   *)
(* kept in lowest terms so that equal values are equal records.  round(x,  *)
(* 2) is modelled on the exact value with ties going to the even           *)
(* hundredth; the binary representation error of a float (which can push   *)
(* a printed tie either way) is not modelled.                              *)
(***************************************************************************)
EXTENDS Integers, Sequences, FiniteSets, TLC

VARIABLES
    \* ---- calculate_ats_score / score_resume_for_jd steps 6 and 7 ----
    pc,               \* position in score_resume_for_jd: "step6", "step7", "returned", or "idle"
    skill_match_pct,  \* rational, percent
    semantic_sim,     \* rational, cosine similarity
    jd_yoe,           \* PyNotFound or PyNum(k)
    resume_yoe,       \* rational, years
    edu_score,        \* rational, percent
    calc,             \* the locals and the return value of calculate_ats_score
    decision,         \* "FIT" / "UNFIT" ("" before step 7)
    status,           \* "SHORTLIST FOR INTERVIEW" / "REJECT" ("" before step 7)
    \* ---- match_skills ----
    mpc,                 \* position in match_skills: "call", "loop", "returned", or "idle"
    resume_skills,       \* sequence of strings (a string is a sequence of characters)
    jd_skills,           \* sequence of strings
    jd_idx,              \* index of the JD skill the for loop takes next
    matched_skills,      \* sequence of match labels
    missing_skills,      \* sequence of strings
    used_resume_skills,  \* set of cleaned resume skills
    cos_sim,             \* the embedding model's answers so far: <<jd skill, resume skill>> -> similarity
    encode_calls,        \* number of model.encode calls made by this call
    credited,            \* history: per matched entry, the index of the resume skill behind it
    last_iter,           \* history: what the latest loop iteration saw and did
    match_result,        \* the returned (percent, matched, missing)
    \* ---- match_education ----
    epc,                 \* position in match_education: "call", "compare", "returned", or "idle"
    resume_edu,          \* sequence of strings: the resume's education entries
    jd_edu,              \* sequence of strings: the JD's education entries
    resume_level,        \* normalize_education(resume_edu) ("" before it is computed)
    jd_level,            \* normalize_education(jd_edu) ("" before it is computed)
    edu_match,           \* the returned score (-1 before the return)
    \* ---- extract_yoe_from_jd ----
    ypc,                 \* position in extract_yoe_from_jd: "call", "scan", "select", "returned", or "idle"
    jd_text,             \* the argument: None, or a text (a sequence of words)
    text_to_search,      \* the lower-cased text
    requirements_section, \* what extract_requirements_section returned for the text
    found_yoe,           \* sequence of candidate claims
    yoe_result,          \* the returned dict
    \* ---- extract_total_experience ----
    xpc,                 \* position in extract_total_experience: "call", "scan", "total", "returned", or "idle"
    resume_text,         \* the resume: a sequence of lines
    now,                 \* datetime.now(): [year, month]
    exp_start,           \* the line of the experience header (0: none found)
    exp_end,             \* the line that ends the section (Len + 1: the end of the text)
    total_months,        \* the months added up
    found_ranges,        \* the lines matched by pattern 1 and counted
    total_years,         \* the returned years (a rational; -1 before the return)
    \* ---- extract_entities_with_llm, then cleanup_merged_entities ----
    lpc,                 \* position: "extract", "cleanup", "returned", or "idle"
    text_type,           \* "JD" or "Resume"
    ner_skills,          \* sequence of strings found without the LLM
    ner_education,       \* sequence of strings found without the LLM
    llm_result,          \* the dict returned by extract_entities_with_llm
    final_result,        \* the dict returned by cleanup_merged_entities
    llm_calls,           \* number of chat completion requests made
    llm_failed,          \* history: which of the two requests failed
    \* ---- combined_extraction ----
    cpc,                 \* position in combined_extraction: "name", "trained", "raised", or "idle"
    first_line,          \* the first non-blank line of the resume, stripped (<<>>: no such line)
    llm_up,              \* whether the LLM service answers the extraction request of line 257
    results,             \* the results dict
    error,               \* the exception that left the function ("" while none)
    \* ---- score_resume_for_jd, steps 1 and 2 (pc holds its position) ----
    req_section,         \* what extract_requirements_section returned for the JD
    jd_skill_list,       \* the local jd_skills: the JD's skills, lower-cased
    jd_education,        \* the JD's education entries, sorted
    score_error,         \* the exception that left score_resume_for_jd ("" while none)
    \* ---- score_batch_resumes, from the resume loop on ----
    bpc,                 \* position in score_batch_resumes: "loop", "respond", "done", or "idle"
    resume_files,        \* the uploads, in upload order
    file_idx,            \* index of the upload the for loop takes next
    batch_results,       \* the local results: one entry per upload processed
    successful_count,    \* successful_count
    failed_count,        \* failed_count
    response             \* the response built (sent = FALSE before it is built)

scoreVars == <<pc, skill_match_pct, semantic_sim, jd_yoe, resume_yoe, edu_score,
               calc, decision, status>>

matchVars == <<mpc, resume_skills, jd_skills, jd_idx, matched_skills, missing_skills,
               used_resume_skills, cos_sim, encode_calls, credited, last_iter,
               match_result>>

eduVars == <<epc, resume_edu, jd_edu, resume_level, jd_level, edu_match>>

yoeVars == <<ypc, jd_text, text_to_search, requirements_section, found_yoe, yoe_result>>

expVars == <<xpc, resume_text, now, exp_start, exp_end, total_months, found_ranges,
             total_years>>

llmVars == <<lpc, text_type, ner_skills, ner_education, llm_result, final_result,
             llm_calls, llm_failed>>

resumeVars == <<cpc, first_line, llm_up, results, error>>

pipeVars == <<req_section, jd_skill_list, jd_education, score_error>>

batchVars == <<bpc, resume_files, file_idx, batch_results, successful_count, failed_count,
               response>>

vars == <<scoreVars, matchVars, eduVars, yoeVars, expVars, llmVars, resumeVars, pipeVars,
          batchVars>>

\* The variables outside one group
outsideScore == <<matchVars, eduVars, yoeVars, expVars, llmVars, resumeVars,
    pipeVars, batchVars>>

outsideMatch == <<scoreVars, eduVars, yoeVars, expVars, llmVars, resumeVars,
    pipeVars, batchVars>>

outsideEdu == <<scoreVars, matchVars, yoeVars, expVars, llmVars, resumeVars,
    pipeVars, batchVars>>

outsideYoe == <<scoreVars, matchVars, eduVars, expVars, llmVars, resumeVars,
    pipeVars, batchVars>>

outsideExp == <<scoreVars, matchVars, eduVars, yoeVars, llmVars, resumeVars,
    pipeVars, batchVars>>

outsideLlm == <<scoreVars, matchVars, eduVars, yoeVars, expVars, resumeVars,
    pipeVars, batchVars>>

outsideResume == <<scoreVars, matchVars, eduVars, yoeVars, expVars, llmVars,
    pipeVars, batchVars>>

outsideBatch == <<scoreVars, matchVars, eduVars, yoeVars, expVars, llmVars, resumeVars,
    pipeVars>>

-----------------------------------------------------------------------------
(* Exact rationals standing for Python floats *)

Abs(x) == IF x < 0 THEN -x ELSE x

RECURSIVE GCD(_, _)
GCD(a, b) == IF b = 0 THEN a ELSE GCD(b, a % b)

LCM(a, b) == (a \div GCD(a, b)) * b

\* n/d in lowest terms, d > 0
Rat(n, d) == LET g == GCD(Abs(n), d) IN [n |-> n \div g, d |-> d \div g]

RInt(k) == [n |-> k, d |-> 1]

RAdd(a, b) == LET l == LCM(a.d, b.d)
              IN  Rat(a.n * (l \div a.d) + b.n * (l \div b.d), l)

RNeg(a) == [n |-> -a.n, d |-> a.d]

RSub(a, b) == RAdd(a, RNeg(b))

RMul(a, b) == LET g1 == GCD(Abs(a.n), b.d)
                  g2 == GCD(Abs(b.n), a.d)
              IN  Rat((a.n \div g1) * (b.n \div g2), (a.d \div g2) * (b.d \div g1))

\* a / b for b > 0
RDiv(a, b) == RMul(a, [n |-> b.d, d |-> b.n])

RLeq(a, b) == a.n * b.d <= b.n * a.d

RLt(a, b) == a.n * b.d < b.n * a.d

RGeq(a, b) == RLeq(b, a)

RMax(a, b) == IF RLt(a, b) THEN b ELSE a

\* round(x, ndigits) with 10^ndigits = scale: the nearest multiple of 1/scale,
\* a tie going to the even one
RoundTo(a, scale) ==
    LET whole == a.n \div a.d
        rem   == a.n % a.d
        h     == (scale * rem) \div a.d
        r     == (scale * rem) % a.d
        up    == \/ 2 * r > a.d
                 \/ 2 * r = a.d /\ (scale * whole + h) % 2 = 1
    IN  Rat(scale * whole + h + (IF up THEN 1 ELSE 0), scale)

Round2(a) == RoundTo(a, 100)

-----------------------------------------------------------------------------
(* Python values that are a number or the string "Not Found" *)

PyNotFound == [tag |-> "str", num |-> 0]

PyNum(k) == [tag |-> "num", num |-> k]

IsNotFound(v) == v.tag = "str"

-----------------------------------------------------------------------------
(* scorer.py: calculate_ats_score *)

\* Component 1: skills_score = (skill_match_pct / 100) * 40
SkillsScore(pct) == RMul(RDiv(pct, RInt(100)), RInt(40))

\* Mutant: the proportional branch without its floor of 8
YoeScoreNoFloor(jd, r) ==
    IF IsNotFound(jd) \/ r = RInt(0)
    THEN RInt(15)
    ELSE LET jd_yoe_num == RInt(jd.num)
         IN  IF RGeq(r, jd_yoe_num) THEN RInt(30)
             ELSE IF RGeq(r, RMul(jd_yoe_num, Rat(75, 100))) THEN RInt(25)
             ELSE IF RGeq(r, RMul(jd_yoe_num, Rat(5, 10))) THEN RInt(18)
             ELSE RMul(RDiv(r, jd_yoe_num), RInt(30))

\* Mutant: the 75% and 50% bands with their scores exchanged
YoeScoreBandsExchanged(jd, r) ==
    IF IsNotFound(jd) \/ r = RInt(0)
    THEN RInt(15)
    ELSE LET jd_yoe_num == RInt(jd.num)
         IN  IF RGeq(r, jd_yoe_num) THEN RInt(30)
             ELSE IF RGeq(r, RMul(jd_yoe_num, Rat(75, 100))) THEN RInt(18)
             ELSE IF RGeq(r, RMul(jd_yoe_num, Rat(5, 10))) THEN RInt(25)
             ELSE RMax(RInt(8), RMul(RDiv(r, jd_yoe_num), RInt(30)))

\* Component 2: the experience score
YoeScore(jd, r) ==
    IF IsNotFound(jd) \/ r = RInt(0)
    THEN RInt(15)
    ELSE LET jd_yoe_num == RInt(jd.num)
         IN  IF RGeq(r, jd_yoe_num) THEN RInt(30)
             ELSE IF RGeq(r, RMul(jd_yoe_num, Rat(75, 100))) THEN RInt(25)
             ELSE IF RGeq(r, RMul(jd_yoe_num, Rat(5, 10))) THEN RInt(18)
             ELSE RMax(RInt(8), RMul(RDiv(r, jd_yoe_num), RInt(30)))

\* Component 3: semantic_score = semantic_sim * 20
SemanticScore(sim) == RMul(sim, RInt(20))

\* Component 4: education_score = (edu_score / 100) * 10
EducationScore(edu) == RMul(RDiv(edu, RInt(100)), RInt(10))

\* Mutant: the education component left out of the sum
RawSumNoEducation(sk, yoe, sem, ed) == RAdd(RAdd(sk, yoe), sem)

\* final_score = skills_score + yoe_score + semantic_score + education_score
RawSum(sk, yoe, sem, ed) == RAdd(RAdd(RAdd(sk, yoe), sem), ed)

\* if skill_match_pct < 50
PenaltyApplies(pct) == RLt(pct, RInt(50))

\* Mutant: the penalty without its factor 0.5
PenaltyFull(pct) == RSub(RInt(50), pct)

\* penalty = (50 - skill_match_pct) * 0.5
Penalty(pct) == RMul(RSub(RInt(50), pct), Rat(5, 10))

\* Mutant: the penalty subtracted without the floor at 0
PenalisedNoFloor(raw, penalty) == Round2(RSub(raw, penalty))

\* final_score = max(final_score - penalty, 0); final_score = round(final_score, 2)
Penalised(raw, penalty) == Round2(RMax(RSub(raw, penalty), RInt(0)))

\* The locals of one call and what it returns: (round(final_score, 2), breakdown)
calculate_ats_score(pct, sim, jd, r, edu) ==
    LET skills_score    == SkillsScore(pct)
        yoe_score       == YoeScore(jd, r)
        semantic_score  == SemanticScore(sim)
        education_score == EducationScore(edu)
        raw             == RawSum(skills_score, yoe_score, semantic_score, education_score)
        applies         == PenaltyApplies(pct)
        penalty         == IF applies THEN Penalty(pct) ELSE RInt(0)
        final_local     == IF applies THEN Penalised(raw, penalty) ELSE raw
    IN  [returned        |-> TRUE,
         skills_score    |-> skills_score,
         yoe_score       |-> yoe_score,
         semantic_score  |-> semantic_score,
         education_score |-> education_score,
         raw_sum         |-> raw,
         penalty_applied |-> applies,
         penalty         |-> penalty,
         breakdown       |-> [skills_score    |-> Round2(skills_score),
                              yoe_score       |-> Round2(yoe_score),
                              semantic_score  |-> Round2(semantic_score),
                              education_score |-> Round2(education_score),
                              final_score     |-> Round2(final_local)],
         final_score     |-> Round2(final_local)]

NoResult == [returned |-> FALSE]

-----------------------------------------------------------------------------
(* Strings: a string is a sequence of one-character strings *)

UpperLetters == {"A", "B", "C", "D", "E", "F", "G", "H", "I", "J", "K", "L", "M", "N", "O", "P", "Q", "R", "S", "T", "U", "V", "W", "X", "Y", "Z"}

LowerChar(c) ==
    CASE c = "A" -> "a"
      [] c = "B" -> "b"
      [] c = "C" -> "c"
      [] c = "D" -> "d"
      [] c = "E" -> "e"
      [] c = "F" -> "f"
      [] c = "G" -> "g"
      [] c = "H" -> "h"
      [] c = "I" -> "i"
      [] c = "J" -> "j"
      [] c = "K" -> "k"
      [] c = "L" -> "l"
      [] c = "M" -> "m"
      [] c = "N" -> "n"
      [] c = "O" -> "o"
      [] c = "P" -> "p"
      [] c = "Q" -> "q"
      [] c = "R" -> "r"
      [] c = "S" -> "s"
      [] c = "T" -> "t"
      [] c = "U" -> "u"
      [] c = "V" -> "v"
      [] c = "W" -> "w"
      [] c = "X" -> "x"
      [] c = "Y" -> "y"
      [] c = "Z" -> "z"
      [] OTHER   -> c

\* str.lower()
Lower(s) == [i \in 1..Len(s) |-> LowerChar(s[i])]

RECURSIVE LStrip(_)
LStrip(s) == IF s # <<>> /\ Head(s) = " " THEN LStrip(Tail(s)) ELSE s

RECURSIVE RStrip(_)
RStrip(s) == IF s # <<>> /\ s[Len(s)] = " " THEN RStrip(SubSeq(s, 1, Len(s) - 1)) ELSE s

\* str.strip()
Strip(s) == RStrip(LStrip(s))

RECURSIVE LStripSet(_, _)
LStripSet(s, cs) == IF s # <<>> /\ Head(s) \in cs THEN LStripSet(Tail(s), cs) ELSE s

RECURSIVE RStripSet(_, _)
RStripSet(s, cs) ==
    IF s # <<>> /\ s[Len(s)] \in cs THEN RStripSet(SubSeq(s, 1, Len(s) - 1), cs) ELSE s

\* str.strip(chars)
StripSet(s, cs) == RStripSet(LStripSet(s, cs), cs)

\* skill.lower().strip()
Clean(s) == Strip(Lower(s))

-----------------------------------------------------------------------------
(* matcher.py: match_skills *)

NoMatchResult == [returned |-> FALSE]

MatchResult(pct, matched, missing) ==
    [returned |-> TRUE, pct |-> pct, matched |-> matched, missing |-> missing]

\* Mutant: the two early returns in the other order
EarlyReturnResumeFirst(resume, jd) ==
    IF resume = <<>> THEN MatchResult(RInt(0), <<>>, jd)
    ELSE IF jd = <<>> THEN MatchResult(RInt(50), <<>>, <<>>)
    ELSE NoMatchResult

\* Mutant: the empty-resume return without the missing list
EarlyReturnNoMissing(resume, jd) ==
    IF jd = <<>> THEN MatchResult(RInt(50), <<>>, <<>>)
    ELSE IF resume = <<>> THEN MatchResult(RInt(0), <<>>, <<>>)
    ELSE NoMatchResult

\* The two early returns: no JD skills, then no resume skills
EarlyReturn(resume, jd) ==
    IF jd = <<>> THEN MatchResult(RInt(50), <<>>, <<>>)
    ELSE IF resume = <<>> THEN MatchResult(RInt(0), <<>>, jd)
    ELSE NoMatchResult

\* Step 1, the exact-match loop: the first resume skill that is not used and
\* whose cleaned form equals the cleaned JD skill (0: none)
FirstExact(resume, used, jd_skill_clean) ==
    LET hits == {k \in DOMAIN resume : /\ Clean(resume[k]) \notin used
                                       /\ Clean(resume[k]) = jd_skill_clean}
    IN  IF hits = {} THEN 0 ELSE CHOOSE k \in hits : \A h \in hits : k <= h

\* The resume skills the semantic loop does not skip
Unused(resume, used) == {k \in DOMAIN resume : Clean(resume[k]) \notin used}

NoBest == [sim |-> RInt(0), idx |-> 0]

\* if similarity > best_similarity
Better(similarity, best_similarity) == RLt(best_similarity, similarity)

\* Step 2, the semantic loop over the resume skills from index k on: best
\* holds best_similarity and (the index of) best_resume_skill
RECURSIVE ScanBest(_, _, _, _, _)
ScanBest(k, n, unused, sims, best) ==
    IF k > n THEN best
    ELSE IF k \notin unused THEN ScanBest(k + 1, n, unused, sims, best)
    ELSE IF Better(sims[k], best.sim)
         THEN ScanBest(k + 1, n, unused, sims, [sim |-> sims[k], idx |-> k])
         ELSE ScanBest(k + 1, n, unused, sims, best)

\* Mutant: the threshold taken strictly
MeetsThresholdStrict(best_similarity) == RLt(Rat(75, 100), best_similarity)

\* if best_similarity >= 0.75
MeetsThreshold(best_similarity) == RGeq(best_similarity, Rat(75, 100))

\* Mutant: the matched resume skill is not retired
UsedAfterForgets(used, skill) == used

\* used_resume_skills.add(skill.lower().strip())
UsedAfter(used, skill) == used \cup {Clean(skill)}

\* int(best_similarity * 100)
IntPercent(sim) == (100 * sim.n) \div sim.d

\* f"{jd_skill} (check mark)"
ExactLabel(jd_skill) == [jd |-> jd_skill, mark |-> "exact", resume |-> <<>>, pct |-> 0]

\* f"{jd_skill} (approx) {best_resume_skill} ({int(best_similarity*100)}%)"
SemanticLabel(jd_skill, best_resume_skill, sim) ==
    [jd |-> jd_skill, mark |-> "semantic", resume |-> best_resume_skill,
     pct |-> IntPercent(sim)]

\* Mutant: the percentage returned without round(.., 2)
MatchPercentageUnrounded(matched, jd) == RMul(Rat(Len(matched), Len(jd)), RInt(100))

\* match_percentage = (len(matched_skills) / len(jd_skills)) * 100, rounded
MatchPercentage(matched, jd) == Round2(RMul(Rat(Len(matched), Len(jd)), RInt(100)))

\* The similarities the embedding model may return: below, at and above the
\* threshold of 0.75
SimValues == {Rat(74, 100), Rat(75, 100), Rat(90, 100)}

\* The embedding model is a function of the two strings: an answer agrees
\* with the answers already given, and equal resume strings get equal answers
Consistent(sims, jd_skill, resume, seen) ==
    /\ \A k \in DOMAIN sims :
           <<jd_skill, resume[k]>> \in DOMAIN seen => sims[k] = seen[<<jd_skill, resume[k]>>]
    /\ \A k1, k2 \in DOMAIN sims : resume[k1] = resume[k2] => sims[k1] = sims[k2]

Remember(seen, sims, jd_skill, resume) ==
    LET new == {<<jd_skill, resume[k]>> : k \in DOMAIN sims}
    IN  [p \in DOMAIN seen \cup new |->
            IF p \in DOMAIN seen THEN seen[p]
            ELSE sims[CHOOSE k \in DOMAIN sims : resume[k] = p[2]]]

NoIter == [jd |-> 0, kind |-> "none", used_before |-> {}, sims |-> <<>>, encodes |-> 0]

\* The call: the early returns, or the setup of the loop
MatchSkillsCall ==
    /\ mpc = "call"
    /\ LET early == EarlyReturn(resume_skills, jd_skills)
       IN  \/ /\ early.returned
              /\ match_result' = early
              /\ mpc' = "returned"
              /\ UNCHANGED <<jd_idx, matched_skills, missing_skills, used_resume_skills>>
           \/ /\ ~early.returned
              /\ matched_skills' = <<>>
              /\ missing_skills' = <<>>
              /\ used_resume_skills' = {}
              /\ jd_idx' = 1
              /\ mpc' = "loop"
              /\ UNCHANGED match_result
    /\ UNCHANGED <<resume_skills, jd_skills, cos_sim, encode_calls, credited, last_iter>>
    /\ UNCHANGED outsideMatch

\* One iteration of "for jd_skill in jd_skills" that ends in the exact match
MatchSkillsExact ==
    /\ mpc = "loop"
    /\ jd_idx <= Len(jd_skills)
    /\ LET jd_skill == jd_skills[jd_idx]
           k        == FirstExact(resume_skills, used_resume_skills, Clean(jd_skill))
       IN  /\ k # 0
           /\ matched_skills' = Append(matched_skills, ExactLabel(jd_skill))
           /\ used_resume_skills' = UsedAfter(used_resume_skills, resume_skills[k])
           /\ credited' = Append(credited, k)
           /\ last_iter' = [jd |-> jd_idx, kind |-> "exact",
                            used_before |-> used_resume_skills,
                            sims |-> <<>>, encodes |-> 0]
    /\ jd_idx' = jd_idx + 1
    /\ UNCHANGED <<mpc, resume_skills, jd_skills, missing_skills, cos_sim, encode_calls,
                   match_result>>
    /\ UNCHANGED outsideMatch

\* One iteration that finds no exact match and goes through the semantic loop
MatchSkillsSemantic ==
    /\ mpc = "loop"
    /\ jd_idx <= Len(jd_skills)
    /\ LET jd_skill == jd_skills[jd_idx]
           unused   == Unused(resume_skills, used_resume_skills)
       IN  /\ FirstExact(resume_skills, used_resume_skills, Clean(jd_skill)) = 0
           /\ \E sims \in [unused -> SimValues] :
                 /\ Consistent(sims, jd_skill, resume_skills, cos_sim)
                 /\ cos_sim' = Remember(cos_sim, sims, jd_skill, resume_skills)
                 /\ encode_calls' = encode_calls + 1 + Cardinality(unused)
                 /\ LET best == ScanBest(1, Len(resume_skills), unused, sims, NoBest)
                    IN  \/ /\ MeetsThreshold(best.sim)
                           /\ matched_skills' =
                                  Append(matched_skills,
                                         SemanticLabel(jd_skill, resume_skills[best.idx],
                                                       best.sim))
                           /\ used_resume_skills' =
                                  UsedAfter(used_resume_skills, resume_skills[best.idx])
                           /\ credited' = Append(credited, best.idx)
                           /\ last_iter' = [jd |-> jd_idx, kind |-> "semantic",
                                            used_before |-> used_resume_skills,
                                            sims |-> sims,
                                            encodes |-> 1 + Cardinality(unused)]
                           /\ UNCHANGED missing_skills
                        \/ /\ ~MeetsThreshold(best.sim)
                           /\ missing_skills' = Append(missing_skills, jd_skill)
                           /\ last_iter' = [jd |-> jd_idx, kind |-> "missing",
                                            used_before |-> used_resume_skills,
                                            sims |-> sims,
                                            encodes |-> 1 + Cardinality(unused)]
                           /\ UNCHANGED <<matched_skills, used_resume_skills, credited>>
    /\ jd_idx' = jd_idx + 1
    /\ UNCHANGED <<mpc, resume_skills, jd_skills, match_result>>
    /\ UNCHANGED outsideMatch

\* After the loop: return round(match_percentage, 2), matched_skills, missing_skills
MatchSkillsReturn ==
    /\ mpc = "loop"
    /\ jd_idx > Len(jd_skills)
    /\ match_result' = MatchResult(MatchPercentage(matched_skills, jd_skills),
                                   matched_skills, missing_skills)
    /\ mpc' = "returned"
    /\ UNCHANGED <<resume_skills, jd_skills, jd_idx, matched_skills, missing_skills,
                   used_resume_skills, cos_sim, encode_calls, credited, last_iter>>
    /\ UNCHANGED outsideMatch

-----------------------------------------------------------------------------
(* scorer.py: score_resume_for_jd, steps 6 and 7 *)

\* Mutant: the threshold taken strictly
IsFitStrict(final_score) == RLt(RInt(65), final_score)

\* if final_score >= 65
IsFit(final_score) == RGeq(final_score, RInt(65))

\* The decision tag without its trailing check mark or cross
DecisionOf(final_score) == IF IsFit(final_score) THEN "FIT" ELSE "UNFIT"

StatusOf(final_score) ==
    IF IsFit(final_score) THEN "SHORTLIST FOR INTERVIEW" ELSE "REJECT"

\* Step 6: final_score, breakdown = calculate_ats_score(...)
Step6CalculateScore ==
    /\ pc = "step6"
    /\ calc' = calculate_ats_score(skill_match_pct, semantic_sim, jd_yoe,
                                   resume_yoe, edu_score)
    /\ pc' = "step7"
    /\ UNCHANGED <<skill_match_pct, semantic_sim, jd_yoe, resume_yoe, edu_score,
                   decision, status>>
    /\ UNCHANGED outsideScore

\* Step 7: the decision and the returned result
Step7Decide ==
    /\ pc = "step7"
    /\ decision' = DecisionOf(calc.final_score)
    /\ status' = StatusOf(calc.final_score)
    /\ pc' = "returned"
    /\ UNCHANGED <<skill_match_pct, semantic_sim, jd_yoe, resume_yoe, edu_score, calc>>
    /\ UNCHANGED outsideScore

-----------------------------------------------------------------------------
(* The inputs of the score composer *)

MaxJdYoe == 7

MaxResumeYoe == 6

\* skill match percent, in hundredths of a percent: the tens, the penalty
\* boundary and the thirds that round(m/n*100, 2) produces
PctInputs == {Rat(1000 * k, 100) : k \in 0..10}
                 \cup {Rat(h, 100) : h \in {2500, 3333, 4500, 4999, 6667}}

\* cosine similarity in [-1, 1]
SimInputs == {Rat(t, 10000) : t \in {-10000, -5000, 0, 2500, 5000, 8123, 9000, 10000}}

JdYoeInputs == {PyNotFound} \cup {PyNum(k) : k \in 0..MaxJdYoe}

\* resume years, in tenths (round(total_months / 12, 1))
ResumeYoeInputs == {Rat(5 * k, 10) : k \in 0..(2 * MaxResumeYoe)}
                       \cup {Rat(t, 10) : t \in {1, 37, 38}}

\* education score in 0..100; match_education returns 30, 50, 60 or 100
EduInputs == {RInt(e) : e \in {0, 30, 50, 60, 100}}

(* The inputs of match_skills *)

MaxJdSkills == 2

MaxResumeSkills == 2

Python == <<"P", "y", "t", "h", "o", "n">>

python == <<"p", "y", "t", "h", "o", "n">>

AWS == <<"A", "W", "S">>

aws_padded == <<" ", "a", "w", "s">>

ML == <<"M", "L">>

SkillUniverse == {Python, python, AWS, aws_padded, ML}

SeqsUpTo(S, n) == UNION {[1..k -> S] : k \in 0..n}

\* No call of match_skills in progress
MatchIdle ==
    /\ mpc = "idle"
    /\ resume_skills = <<>>
    /\ jd_skills = <<>>
    /\ jd_idx = 0
    /\ matched_skills = <<>>
    /\ missing_skills = <<>>
    /\ used_resume_skills = {}
    /\ cos_sim = <<>>
    /\ encode_calls = 0
    /\ credited = <<>>
    /\ last_iter = NoIter
    /\ match_result = NoMatchResult

\* No call of score_resume_for_jd in progress
ScoreIdle ==
    /\ pc = "idle"
    /\ skill_match_pct = RInt(0)
    /\ semantic_sim = RInt(0)
    /\ jd_yoe = PyNotFound
    /\ resume_yoe = RInt(0)
    /\ edu_score = RInt(0)
    /\ calc = NoResult
    /\ decision = ""
    /\ status = ""

\* No call of match_education in progress
EduIdle ==
    /\ epc = "idle"
    /\ resume_edu = <<>>
    /\ jd_edu = <<>>
    /\ resume_level = ""
    /\ jd_level = ""
    /\ edu_match = -1

\* No call of extract_yoe_from_jd in progress
YoeIdle ==
    /\ ypc = "idle"
    /\ jd_text = [tag |-> "none", words |-> <<>>]
    /\ text_to_search = <<>>
    /\ requirements_section = [found |-> FALSE]
    /\ found_yoe = <<>>
    /\ yoe_result = [returned |-> FALSE]

\* No call of extract_total_experience in progress
ExpIdle ==
    /\ xpc = "idle"
    /\ resume_text = <<>>
    /\ now = [year |-> 0, month |-> 0]
    /\ exp_start = 0
    /\ exp_end = 0
    /\ total_months = 0
    /\ found_ranges = {}
    /\ total_years = RInt(-1)

\* No LLM extraction in progress
LlmIdle ==
    /\ lpc = "idle"
    /\ text_type = ""
    /\ ner_skills = <<>>
    /\ ner_education = <<>>
    /\ llm_result = [returned |-> FALSE]
    /\ final_result = [returned |-> FALSE]
    /\ llm_calls = 0
    /\ llm_failed = {}

\* No call of combined_extraction in progress
ResumeIdle ==
    /\ cpc = "idle"
    /\ first_line = <<>>
    /\ llm_up = TRUE
    /\ results = [returned |-> FALSE]
    /\ error = ""

\* score_resume_for_jd has not reached its first two steps
PipeIdle ==
    /\ req_section = [found |-> FALSE]
    /\ jd_skill_list = <<>>
    /\ jd_education = <<>>
    /\ score_error = ""

\* No call of score_batch_resumes in progress
BatchIdle ==
    /\ bpc = "idle"
    /\ resume_files = <<>>
    /\ file_idx = 0
    /\ batch_results = <<>>
    /\ successful_count = 0
    /\ failed_count = 0
    /\ response = [sent |-> FALSE]

OutsideMatchIdle ==
    ScoreIdle /\ EduIdle /\ YoeIdle /\ ExpIdle /\ LlmIdle /\ ResumeIdle /\ PipeIdle /\ BatchIdle

OutsideScoreIdle ==
    MatchIdle /\ EduIdle /\ YoeIdle /\ ExpIdle /\ LlmIdle /\ ResumeIdle /\ PipeIdle /\ BatchIdle

OutsideEduIdle ==
    ScoreIdle /\ MatchIdle /\ YoeIdle /\ ExpIdle /\ LlmIdle /\ ResumeIdle /\ PipeIdle /\ BatchIdle

OutsideYoeIdle ==
    ScoreIdle /\ MatchIdle /\ EduIdle /\ ExpIdle /\ LlmIdle /\ ResumeIdle /\ PipeIdle /\ BatchIdle

OutsideExpIdle ==
    ScoreIdle /\ MatchIdle /\ EduIdle /\ YoeIdle /\ LlmIdle /\ ResumeIdle /\ PipeIdle /\ BatchIdle

OutsideLlmIdle ==
    ScoreIdle /\ MatchIdle /\ EduIdle /\ YoeIdle /\ ExpIdle /\ ResumeIdle /\ PipeIdle /\ BatchIdle

OutsideResumeIdle ==
    ScoreIdle /\ MatchIdle /\ EduIdle /\ YoeIdle /\ ExpIdle /\ LlmIdle /\ PipeIdle /\ BatchIdle

OutsideBatchIdle ==
    ScoreIdle /\ MatchIdle /\ EduIdle /\ YoeIdle /\ ExpIdle /\ LlmIdle /\ ResumeIdle /\ PipeIdle

InitMatch ==
    /\ mpc = "call"
    /\ resume_skills \in SeqsUpTo(SkillUniverse, MaxResumeSkills)
    /\ jd_skills \in SeqsUpTo(SkillUniverse, MaxJdSkills)
    /\ jd_idx = 0
    /\ matched_skills = <<>>
    /\ missing_skills = <<>>
    /\ used_resume_skills = {}
    /\ cos_sim = <<>>
    /\ encode_calls = 0
    /\ credited = <<>>
    /\ last_iter = NoIter
    /\ match_result = NoMatchResult
    /\ OutsideMatchIdle

NextMatch ==
    \/ MatchSkillsCall
    \/ MatchSkillsExact
    \/ MatchSkillsSemantic
    \/ MatchSkillsReturn

SpecMatch == InitMatch /\ [][NextMatch]_vars

(* match_skills on longer JD lists, where the percentage is not a whole number *)

MaxLongJd == 3

LongJdUniverse == {python, AWS, ML}

InitMatchLong ==
    /\ mpc = "call"
    /\ \/ /\ resume_skills \in SeqsUpTo(SkillUniverse, MaxResumeSkills)
          /\ jd_skills \in SeqsUpTo(SkillUniverse, MaxJdSkills)
       \/ /\ resume_skills \in SeqsUpTo(SkillUniverse, 1)
          /\ jd_skills \in SeqsUpTo(LongJdUniverse, MaxLongJd)
    /\ jd_idx = 0
    /\ matched_skills = <<>>
    /\ missing_skills = <<>>
    /\ used_resume_skills = {}
    /\ cos_sim = <<>>
    /\ encode_calls = 0
    /\ credited = <<>>
    /\ last_iter = NoIter
    /\ match_result = NoMatchResult
    /\ OutsideMatchIdle

SpecMatchLong == InitMatchLong /\ [][NextMatch]_vars

-----------------------------------------------------------------------------

(* The score composer alone *)

InitScore ==
    /\ pc = "step6"
    /\ skill_match_pct \in PctInputs
    /\ semantic_sim \in SimInputs
    /\ jd_yoe \in JdYoeInputs
    /\ resume_yoe \in ResumeYoeInputs
    /\ edu_score \in EduInputs
    /\ calc = NoResult
    /\ decision = ""
    /\ status = ""
    /\ OutsideScoreIdle

NextScore ==
    \/ Step6CalculateScore
    \/ Step7Decide

SpecScore == InitScore /\ [][NextScore]_vars

\* The spec example: 80, 0.9, jdYoe 5, resumeYoe 6, 100
ExampleInput ==
    /\ skill_match_pct = RInt(80)
    /\ semantic_sim = Rat(9, 10)
    /\ jd_yoe = PyNum(5)
    /\ resume_yoe = RInt(6)
    /\ edu_score = RInt(100)

-----------------------------------------------------------------------------
(* Claims about the score composer, checked under SpecScore *)

Returned == calc.returned

\* The four components of the call, summed exactly
ComponentSum ==
    RAdd(RAdd(calc.skills_score, calc.yoe_score),
         RAdd(calc.semantic_score, calc.education_score))

\* C1: for skill match percent in 0..100, cosine similarity in [-1,1],
\* education score in 0..100, resume years >= 0 and a JD requirement that is
\* "Not Found" or a non-negative number, the returned final score lies in
\* [0,100].
C1_FinalScoreInRange ==
    Returned =>
        /\ 0 <= calc.final_score.n
        /\ calc.final_score.n <= 100 * calc.final_score.d
        /\ calc.breakdown.final_score = calc.final_score

\* C1 witness: a call in which the penalty would drive the sum below zero and
\* the returned score is the floor, 0
C1_Witness ==
    /\ Returned
    /\ calc.penalty_applied
    /\ RLt(RSub(calc.raw_sum, calc.penalty), RInt(0))
    /\ calc.final_score = RInt(0)

\* C2 as stated: the reported components are exactly pct/100*40, sim*20 and
\* edu/100*10, and for pct >= 50 the reported final score is exactly the sum
\* of the four reported components.
C2_ExactSum ==
    Returned =>
        /\ calc.breakdown.skills_score = RMul(skill_match_pct, Rat(40, 100))
        /\ calc.breakdown.semantic_score = RMul(semantic_sim, RInt(20))
        /\ calc.breakdown.education_score = RMul(edu_score, Rat(10, 100))
        /\ RGeq(skill_match_pct, RInt(50)) =>
               calc.final_score =
                   RAdd(RAdd(calc.breakdown.skills_score, calc.breakdown.yoe_score),
                        RAdd(calc.breakdown.semantic_score,
                             calc.breakdown.education_score))

\* C2 amended: each reported component is its formula rounded to two
\* decimals, and for pct >= 50 the reported final score is the exact sum of
\* the four unrounded components rounded to two decimals; on the example
\* inputs (80, 0.9, 5, 6, 100) this gives 32, 30, 18, 10 and 90.
C2_RoundedSum ==
    Returned =>
        /\ calc.breakdown.skills_score = Round2(RMul(skill_match_pct, Rat(40, 100)))
        /\ calc.breakdown.semantic_score = Round2(RMul(semantic_sim, RInt(20)))
        /\ calc.breakdown.education_score = Round2(RMul(edu_score, Rat(10, 100)))
        /\ calc.breakdown.yoe_score = Round2(calc.yoe_score)
        /\ RGeq(skill_match_pct, RInt(50)) =>
               calc.final_score =
                   Round2(RAdd(RAdd(RMul(skill_match_pct, Rat(40, 100)), calc.yoe_score),
                               RAdd(RMul(semantic_sim, RInt(20)),
                                    RMul(edu_score, Rat(10, 100)))))
        /\ ExampleInput =>
               /\ calc.breakdown.skills_score = RInt(32)
               /\ calc.breakdown.yoe_score = RInt(30)
               /\ calc.breakdown.semantic_score = RInt(18)
               /\ calc.breakdown.education_score = RInt(10)
               /\ calc.final_score = RInt(90)

\* C2 witness: a call with pct >= 50 whose exact sum has more than two
\* decimals, so that the reported final score differs from it
C2_Witness ==
    /\ Returned
    /\ RGeq(skill_match_pct, RInt(50))
    /\ calc.final_score # ComponentSum

\* C3: a penalty is applied if and only if pct < 50; it equals
\* (50 - pct) * 0.5, is subtracted from the raw sum of the four components
\* and the result is floored at 0 (and reported rounded to two decimals); for
\* pct >= 50 nothing is subtracted.
C3_PenaltyBelowFifty ==
    Returned =>
        /\ calc.penalty_applied <=> skill_match_pct.n < 50 * skill_match_pct.d
        /\ calc.penalty_applied =>
               /\ calc.penalty = Rat(50 * skill_match_pct.d - skill_match_pct.n,
                                     2 * skill_match_pct.d)
               /\ LET diff == RSub(ComponentSum, calc.penalty)
                  IN  calc.final_score = IF diff.n < 0 THEN RInt(0) ELSE Round2(diff)
        /\ ~calc.penalty_applied =>
               /\ calc.penalty = RInt(0)
               /\ calc.final_score = Round2(ComponentSum)

\* C3 witness: pct = 40 gives a penalty of 5, subtracted from a raw sum that
\* stays positive
C3_Witness ==
    /\ Returned
    /\ skill_match_pct = RInt(40)
    /\ calc.penalty = RInt(5)
    /\ calc.final_score = Round2(RSub(calc.raw_sum, RInt(5)))
    /\ RLt(RInt(0), calc.final_score)

\* C4: the experience component is 15 when the JD requirement is "Not Found"
\* or the resume experience is 0; otherwise 30 when resume >= jd, 25 when
\* resume >= 75% of jd, 18 when resume >= 50% of jd, and
\* max(8, resume/jd*30) below 50%.
C4_YoeScore ==
    Returned =>
        LET a == resume_yoe.n
            b == resume_yoe.d
            j == jd_yoe.num
        IN  IF IsNotFound(jd_yoe) \/ a = 0       THEN calc.yoe_score = RInt(15)
            ELSE IF a >= j * b                   THEN calc.yoe_score = RInt(30)
            ELSE IF 4 * a >= 3 * j * b           THEN calc.yoe_score = RInt(25)
            ELSE IF 2 * a >= j * b               THEN calc.yoe_score = RInt(18)
            ELSE IF 30 * a <= 8 * j * b          THEN calc.yoe_score = RInt(8)
            ELSE calc.yoe_score = Rat(30 * a, j * b)

\* C4 witness: a resume below half of the requirement whose proportional
\* score is above the floor of 8 (2.5 years against 7 gives 75/7)
C4_Witness ==
    /\ Returned
    /\ ~IsNotFound(jd_yoe)
    /\ RLt(RInt(0), resume_yoe)
    /\ RLt(resume_yoe, Rat(jd_yoe.num, 2))
    /\ RLt(RInt(8), calc.yoe_score)

\* C5: score_resume_for_jd returns FIT / SHORTLIST FOR INTERVIEW exactly when
\* the final score it reports is >= 65 and UNFIT / REJECT otherwise; the
\* decision is always one of the two.
C5_DecisionThreshold ==
    pc = "returned" =>
        LET fit == calc.final_score.n >= 65 * calc.final_score.d
        IN  /\ decision \in {"FIT", "UNFIT"}
            /\ fit => decision = "FIT" /\ status = "SHORTLIST FOR INTERVIEW"
            /\ ~fit => decision = "UNFIT" /\ status = "REJECT"

\* C5 witness: a final score of exactly 65 is shortlisted
C5_Witness ==
    /\ pc = "returned"
    /\ calc.final_score = RInt(65)
    /\ decision = "FIT"

\* C6 as stated: every breakdown has skillsScore in 0..40, yoeScore in 0..30,
\* semanticScore in 0..20 and educationScore in 0..10.
C6_BreakdownRanges ==
    Returned =>
        /\ RLeq(RInt(0), calc.breakdown.skills_score)
        /\ RLeq(calc.breakdown.skills_score, RInt(40))
        /\ RLeq(RInt(0), calc.breakdown.yoe_score)
        /\ RLeq(calc.breakdown.yoe_score, RInt(30))
        /\ RLeq(RInt(0), calc.breakdown.semantic_score)
        /\ RLeq(calc.breakdown.semantic_score, RInt(20))
        /\ RLeq(RInt(0), calc.breakdown.education_score)
        /\ RLeq(calc.breakdown.education_score, RInt(10))

-----------------------------------------------------------------------------
(* Claims about match_skills, checked under SpecMatch *)

MatchReturned == mpc = "returned"

\* C7: match_skills returns the neutral result (50, [], []) whenever the JD
\* skill list is empty, for every resume skill list including the empty one,
\* and without calling the embedding model.
C7_NeutralOnEmptyJd ==
    (MatchReturned /\ jd_skills = <<>>) =>
        /\ match_result.pct = RInt(50)
        /\ match_result.matched = <<>>
        /\ match_result.missing = <<>>
        /\ encode_calls = 0

\* C7 witness: both lists empty, and the neutral 50 is returned
C7_Witness ==
    /\ MatchReturned
    /\ jd_skills = <<>>
    /\ resume_skills = <<>>
    /\ match_result.pct = RInt(50)

\* C8: with an empty resume skill list and a non-empty JD skill list,
\* match_skills returns 0 percent, an empty matched list and a missing list
\* equal to the whole JD skill list in JD order.
C8_ZeroOnEmptyResume ==
    (MatchReturned /\ resume_skills = <<>> /\ jd_skills # <<>>) =>
        /\ match_result.pct = RInt(0)
        /\ match_result.matched = <<>>
        /\ match_result.missing = jd_skills

\* C8 witness: an empty resume against two different JD skills
C8_Witness ==
    /\ MatchReturned
    /\ resume_skills = <<>>
    /\ Len(jd_skills) = 2
    /\ jd_skills[1] # jd_skills[2]
    /\ match_result.missing = jd_skills

\* C9: no resume skill is credited to more than one JD skill: across exact
\* and semantic matches, the cleaned resume skills behind the matched entries
\* are pairwise different, so the matched entries never outnumber the resume
\* skills, also when the JD list repeats a skill.
C9_NoDoubleCredit ==
    mpc \in {"loop", "returned"} =>
        /\ Len(credited) = Len(matched_skills)
        /\ \A i, j \in DOMAIN credited :
               i # j => Clean(resume_skills[credited[i]]) # Clean(resume_skills[credited[j]])
        /\ Len(matched_skills) <= Len(resume_skills)
        /\ (match_result.returned => Len(match_result.matched) <= Len(resume_skills))

\* C9 witness: the JD repeats a skill the resume has once; the first entry is
\* matched exactly and the repeat is missing
C9_Witness ==
    /\ MatchReturned
    /\ Len(resume_skills) = 1
    /\ Len(jd_skills) = 2
    /\ jd_skills[1] = jd_skills[2]
    /\ Len(match_result.matched) = 1
    /\ match_result.matched[1].mark = "exact"
    /\ match_result.missing = <<jd_skills[2]>>

\* C10: JD skills are processed in list order; an iteration first takes an
\* exact case-insensitive match among the unused resume skills and then
\* computes no similarity; only when there is none does it compute the
\* similarity to every unused resume skill, and it records a semantic match
\* with a highest-scoring one if and only if that best similarity is >= 0.75,
\* otherwise the JD skill is missing.  Resume ["Python","AWS"] against JD
\* ["python"] gives 100% with one matched entry.
C10_ExactThenSemantic ==
    /\ (mpc \in {"loop", "returned"} /\ last_iter.jd > 0) =>
           LET i        == last_iter.jd
               jd_skill == jd_skills[i]
               unused   == {k \in DOMAIN resume_skills :
                               Clean(resume_skills[k]) \notin last_iter.used_before}
               exact    == {k \in unused : Clean(resume_skills[k]) = Clean(jd_skill)}
               sims     == last_iter.sims
               entry    == matched_skills[Len(matched_skills)]
               backer   == credited[Len(credited)]
           IN  /\ i = jd_idx - 1
               /\ Len(matched_skills) + Len(missing_skills) = i
               /\ exact # {} =>
                      /\ last_iter.kind = "exact"
                      /\ last_iter.encodes = 0
                      /\ sims = <<>>
                      /\ entry.mark = "exact"
                      /\ entry.jd = jd_skill
                      /\ backer \in exact
               /\ exact = {} =>
                      /\ DOMAIN sims = unused
                      /\ last_iter.encodes = 1 + Cardinality(unused)
                      /\ last_iter.kind = "semantic" <=>
                             \E k \in unused : 75 * sims[k].d <= 100 * sims[k].n
                      /\ last_iter.kind = "semantic" =>
                             /\ entry.mark = "semantic"
                             /\ entry.jd = jd_skill
                             /\ entry.resume = resume_skills[backer]
                             /\ backer \in unused
                             /\ \A h \in unused : RLeq(sims[h], sims[backer])
                      /\ last_iter.kind # "semantic" =>
                             /\ last_iter.kind = "missing"
                             /\ missing_skills[Len(missing_skills)] = jd_skill
    /\ (MatchReturned /\ resume_skills = <<Python, AWS>> /\ jd_skills = <<python>>) =>
           /\ match_result.pct = RInt(100)
           /\ Len(match_result.matched) = 1
           /\ match_result.missing = <<>>
           /\ encode_calls = 0

\* C10 witness: no exact match, two unused resume skills both at or above the
\* threshold, and the higher one is recorded
C10_Witness ==
    /\ mpc \in {"loop", "returned"}
    /\ last_iter.kind = "semantic"
    /\ \E k1, k2 \in DOMAIN last_iter.sims :
           /\ last_iter.sims[k1] = Rat(75, 100)
           /\ last_iter.sims[k2] = Rat(90, 100)
           /\ credited[Len(credited)] = k2

-----------------------------------------------------------------------------
(* match_skills: the partition of the JD list and the percentage *)

\* c is a merge of a and b that keeps the order of both
RECURSIVE Interleaves(_, _, _)
Interleaves(a, b, c) ==
    IF c = <<>> THEN a = <<>> /\ b = <<>>
    ELSE \/ a # <<>> /\ Head(a) = Head(c) /\ Interleaves(Tail(a), b, Tail(c))
         \/ b # <<>> /\ Head(b) = Head(c) /\ Interleaves(a, Tail(b), Tail(c))

\* The JD skills named by the matched labels, in label order
MatchedJd(matched) == [k \in DOMAIN matched |-> matched[k].jd]

BothNonEmpty == resume_skills # <<>> /\ jd_skills # <<>>

\* Every JD skill is in exactly one of the two lists, each list in JD order
PartitionInJdOrder ==
    /\ Len(match_result.matched) + Len(match_result.missing) = Len(jd_skills)
    /\ Interleaves(MatchedJd(match_result.matched), match_result.missing, jd_skills)

\* p is a whole number of hundredths, at most half a hundredth from
\* 100 * k / n, and between 0 and 100
NearestHundredth(p, k, n) ==
    LET h == (p.n * 100) \div p.d
    IN  /\ h * p.d = p.n * 100
        /\ 2 * Abs(h * n - 10000 * k) <= n
        /\ 0 <= h /\ h <= 10000

\* C11 as stated: with both lists non-empty the JD skills are partitioned
\* into matched and missing in JD order and the returned percent equals
\* len(matched) / len(jd_skills) * 100 exactly.
C11_ExactPercent ==
    (MatchReturned /\ BothNonEmpty) =>
        /\ PartitionInJdOrder
        /\ match_result.pct.n * Len(jd_skills)
               = 100 * Len(match_result.matched) * match_result.pct.d
        /\ RLeq(RInt(0), match_result.pct) /\ RLeq(match_result.pct, RInt(100))

\* C11 amended: with both lists non-empty the JD skills are partitioned into
\* matched and missing in JD order, and the returned percent is
\* len(matched) / len(jd_skills) * 100 rounded to two decimals, in 0..100.
C11_RoundedPercent ==
    (MatchReturned /\ BothNonEmpty) =>
        /\ PartitionInJdOrder
        /\ NearestHundredth(match_result.pct, Len(match_result.matched), Len(jd_skills))

\* C11 witness: one of three JD skills matched, the other two missing in JD
\* order, and 33.33 returned
C11_Witness ==
    /\ MatchReturned
    /\ jd_skills = <<ML, python, AWS>>
    /\ resume_skills = <<Python>>
    /\ MatchedJd(match_result.matched) = <<python>>
    /\ match_result.missing = <<ML, AWS>>
    /\ match_result.pct = Rat(3333, 100)

-----------------------------------------------------------------------------
(* matcher.py: normalize_education and match_education *)

\* ' '.join(list)
RECURSIVE JoinSpace(_)
JoinSpace(list) ==
    IF list = <<>> THEN <<>>
    ELSE IF Len(list) = 1 THEN list[1]
    ELSE list[1] \o <<" ">> \o JoinSpace(Tail(list))

\* term in text
Contains(text, term) ==
    \E i \in 1..(Len(text) - Len(term) + 1) : SubSeq(text, i, i + Len(term) - 1) = term

\* any(term in edu_text for term in terms)
AnyTerm(text, terms) == \E term \in terms : Contains(text, term)

PhDTerms ==
    {<<"p", "h", "d">>,
     <<"p", "h", ".", "d">>,
     <<"d", "o", "c", "t", "o", "r", "a", "t", "e">>,
     <<"d", "o", "c", "t", "o", "r", "a", "l">>}

MastersTerms ==
    {<<"m", "a", "s", "t", "e", "r">>,
     <<"m", "a", "s", "t", "e", "r", "s">>,
     <<"m", ".", "t", "e", "c", "h">>,
     <<"m", ".", "e", ".">>,
     <<"m", ".", "s", ".">>,
     <<"m", "b", "a">>,
     <<"p", "o", "s", "t", "g", "r", "a", "d", "u", "a", "t", "e">>}

BachelorsTerms ==
    {<<"b", "a", "c", "h", "e", "l", "o", "r">>,
     <<"b", "a", "c", "h", "e", "l", "o", "r", "s">>,
     <<"b", ".", "e", ".">>,
     <<"b", ".", "t", "e", "c", "h">>,
     <<"b", ".", "s", ".">>,
     <<"u", "n", "d", "e", "r", "g", "r", "a", "d", "u", "a", "t", "e">>,
     <<"g", "r", "a", "d", "u", "a", "t", "e">>}

DiplomaTerms ==
    {<<"d", "i", "p", "l", "o", "m", "a">>,
     <<"a", "s", "s", "o", "c", "i", "a", "t", "e">>}

\* Mutant: Bachelors tested before Masters
normalize_education_bachelors_first(edu_list) ==
    IF edu_list = <<>> THEN "None"
    ELSE LET edu_text == Lower(JoinSpace(edu_list))
         IN  IF AnyTerm(edu_text, PhDTerms) THEN "PhD"
             ELSE IF AnyTerm(edu_text, BachelorsTerms) THEN "Bachelors"
             ELSE IF AnyTerm(edu_text, MastersTerms) THEN "Masters"
             ELSE IF AnyTerm(edu_text, DiplomaTerms) THEN "Diploma"
             ELSE "Bachelors"

\* normalize_education: None ("None") for an empty list, otherwise the first
\* level, from PhD down, one of whose terms is in the joined lower-cased text
normalize_education(edu_list) ==
    IF edu_list = <<>> THEN "None"
    ELSE LET edu_text == Lower(JoinSpace(edu_list))
         IN  IF AnyTerm(edu_text, PhDTerms) THEN "PhD"
             ELSE IF AnyTerm(edu_text, MastersTerms) THEN "Masters"
             ELSE IF AnyTerm(edu_text, BachelorsTerms) THEN "Bachelors"
             ELSE IF AnyTerm(edu_text, DiplomaTerms) THEN "Diploma"
             ELSE "Bachelors"

\* levels = ['Diploma', 'Bachelors', 'Masters', 'PhD']
levels == <<"Diploma", "Bachelors", "Masters", "PhD">>

\* levels.index(level), counted from 0; -1 stands for the ValueError
LevelIndex(level) ==
    IF \E i \in DOMAIN levels : levels[i] = level
    THEN (CHOOSE i \in DOMAIN levels : levels[i] = level) - 1
    ELSE -1

\* Mutant: one level below scored like two
RankScoreNoPartial(resume_rank, jd_rank) ==
    IF resume_rank >= jd_rank THEN 100 ELSE 30

\* The comparison of the two ranks
RankScore(resume_rank, jd_rank) ==
    IF resume_rank >= jd_rank THEN 100
    ELSE IF resume_rank = jd_rank - 1 THEN 60
    ELSE 30

\* match_education after the two levels are known
EducationMatchScore(r_level, j_level) ==
    IF j_level = "None" THEN 100
    ELSE IF r_level = "None" THEN 50
    ELSE IF LevelIndex(r_level) = -1 \/ LevelIndex(j_level) = -1 THEN 50
    ELSE RankScore(LevelIndex(r_level), LevelIndex(j_level))

\* resume_level = normalize_education(resume_edu); jd_level = normalize_education(jd_edu)
MatchEducationNormalize ==
    /\ epc = "call"
    /\ resume_level' = normalize_education(resume_edu)
    /\ jd_level' = normalize_education(jd_edu)
    /\ epc' = "compare"
    /\ UNCHANGED <<resume_edu, jd_edu, edu_match>>
    /\ UNCHANGED outsideEdu

\* The early returns and the comparison of the ranks
MatchEducationReturn ==
    /\ epc = "compare"
    /\ edu_match' = EducationMatchScore(resume_level, jd_level)
    /\ epc' = "returned"
    /\ UNCHANGED <<resume_edu, jd_edu, resume_level, jd_level>>
    /\ UNCHANGED outsideEdu

(* The inputs of match_education *)

MaxResumeEdu == 2

MaxJdEdu == 1

EduPhD == <<"P", "h", "D">>

EduMasters == <<"M", "a", "s", "t", "e", "r", "'", "s">>

EduBachelors == <<"B", "a", "c", "h", "e", "l", "o", "r", "'", "s">>

EduDiploma == <<"D", "i", "p", "l", "o", "m", "a">>

EduPostgraduate == <<"P", "o", "s", "t", "g", "r", "a", "d", "u", "a", "t", "e">>

EduHighSchool == <<"H", "i", "g", "h", " ", "S", "c", "h", "o", "o", "l">>

EduBTech == <<"B", ".", "T", "e", "c", "h">>

EduUniverse ==
    {EduPhD, EduMasters, EduBachelors, EduDiploma, EduPostgraduate, EduHighSchool, EduBTech}

InitEdu ==
    /\ epc = "call"
    /\ resume_edu \in SeqsUpTo(EduUniverse, MaxResumeEdu)
    /\ jd_edu \in SeqsUpTo(EduUniverse, MaxJdEdu)
    /\ resume_level = ""
    /\ jd_level = ""
    /\ edu_match = -1
    /\ OutsideEduIdle

NextEdu ==
    \/ MatchEducationNormalize
    \/ MatchEducationReturn

SpecEdu == InitEdu /\ [][NextEdu]_vars

-----------------------------------------------------------------------------
(* match_education and normalize_education: the levels and the scores *)

EduReturned == epc = "returned"

TermsOf(level) ==
    CASE level = "PhD" -> PhDTerms
      [] level = "Masters" -> MastersTerms
      [] level = "Bachelors" -> BachelorsTerms
      [] level = "Diploma" -> DiplomaTerms

\* Diploma < Bachelors < Masters < PhD
LevelOrder(level) ==
    CASE level = "Diploma" -> 1
      [] level = "Bachelors" -> 2
      [] level = "Masters" -> 3
      [] level = "PhD" -> 4

\* A keyword of the level occurs in one of the entries, letter case aside
KeywordOccurs(level, edu_list) ==
    \E k \in DOMAIN edu_list : \E term \in TermsOf(level) :
        Contains(Lower(edu_list[k]), term)

\* The levels whose keywords occur in the entries
LevelsNamed(edu_list) ==
    {level \in {"Diploma", "Bachelors", "Masters", "PhD"} : KeywordOccurs(level, edu_list)}

\* The highest level named by the entries, Bachelors when none is named
HighestLevel(edu_list) ==
    IF LevelsNamed(edu_list) = {} THEN "Bachelors"
    ELSE CHOOSE level \in LevelsNamed(edu_list) :
             \A other \in LevelsNamed(edu_list) : LevelOrder(other) <= LevelOrder(level)

\* C12: match_education returns 100 when the JD has no education entry, 50
\* when the JD has one and the resume has none, and otherwise 100 when the
\* resume level is at or above the JD level, 60 when it is exactly one level
\* below, 30 when it is two or more below; it returns no other score.
C12_EducationScore ==
    EduReturned =>
        /\ edu_match \in {100, 60, 50, 30}
        /\ jd_edu = <<>> => edu_match = 100
        /\ (jd_edu # <<>> /\ resume_edu = <<>>) => edu_match = 50
        /\ (jd_edu # <<>> /\ resume_edu # <<>>) =>
               LET r == LevelOrder(HighestLevel(resume_edu))
                   j == LevelOrder(HighestLevel(jd_edu))
               IN  /\ r >= j => edu_match = 100
                   /\ r = j - 1 => edu_match = 60
                   /\ r <= j - 2 => edu_match = 30

\* C12 witness: a Bachelors resume against a Masters requirement scores 60
C12_Witness ==
    /\ EduReturned
    /\ resume_edu = <<EduBachelors>>
    /\ jd_edu = <<EduMasters>>
    /\ edu_match = 60

\* C13: normalize_education returns None for an empty list, otherwise the
\* highest level among Diploma, Bachelors, Masters, PhD whose keywords occur
\* in the entries, and Bachelors when the list is non-empty and names none.
C13_HighestLevel ==
    epc \in {"compare", "returned"} =>
        /\ resume_edu = <<>> => resume_level = "None"
        /\ jd_edu = <<>> => jd_level = "None"
        /\ resume_edu # <<>> => resume_level = HighestLevel(resume_edu)
        /\ jd_edu # <<>> => jd_level = HighestLevel(jd_edu)

\* C13 witness: an entry holding keywords of two levels ("postgraduate"
\* holds "graduate") next to a Diploma entry normalizes to Masters, and an
\* entry with no keyword normalizes to Bachelors
C13_Witness ==
    /\ epc = "compare"
    /\ resume_edu = <<EduDiploma, EduPostgraduate>>
    /\ resume_level = "Masters"
    /\ jd_edu = <<EduHighSchool>>
    /\ jd_level = "Bachelors"

-----------------------------------------------------------------------------
(* jd_ner.py: extract_yoe_from_jd *)

(* A text is a sequence of words that single spaces separate, and a word is *)
(* a string.  The five regular expressions are modelled on such texts: a    *)
(* number is a word of digits, "X+" is a word of digits followed by "+".    *)
(* The texts hold no backslash, so the unescaping replaces nothing, and no  *)
(* en dash.                                                                  *)

\* Python's None, next to PyNotFound and PyNum
PyNone == [tag |-> "none", num |-> 0]

NoneText == [tag |-> "none", words |-> <<>>]

Text(words) == [tag |-> "text", words |-> words]

Digits == {"0", "1", "2", "3", "4", "5", "6", "7", "8", "9"}

DigitVal(c) ==
    CASE c = "0" -> 0 [] c = "1" -> 1 [] c = "2" -> 2 [] c = "3" -> 3 [] c = "4" -> 4
      [] c = "5" -> 5 [] c = "6" -> 6 [] c = "7" -> 7 [] c = "8" -> 8 [] c = "9" -> 9

\* int(s) of a string of digits
RECURSIVE IntOf(_)
IntOf(s) ==
    IF s = <<>> THEN 0
    ELSE 10 * IntOf(SubSeq(s, 1, Len(s) - 1)) + DigitVal(s[Len(s)])

\* (\d+) taking the whole word
IsDigitsWord(w) == w # <<>> /\ \A i \in DOMAIN w : w[i] \in Digits

\* (\d+)\+ taking the whole word
IsPlusWord(w) ==
    /\ Len(w) >= 2
    /\ w[Len(w)] = "+"
    /\ IsDigitsWord(SubSeq(w, 1, Len(w) - 1))

LeadDigits(w) == IF IsPlusWord(w) THEN SubSeq(w, 1, Len(w) - 1) ELSE w

StartsWith(w, p) == Len(w) >= Len(p) /\ SubSeq(w, 1, Len(p)) = p

\* years? at the start of the word
IsYears(w) == StartsWith(w, <<"y", "e", "a", "r">>)

\* (?:to|\-|or) of pattern 1
IsConnector1(w) == w \in {<<"t", "o">>, <<"-">>, <<"o", "r">>}

\* (?:\-|to) of pattern 3
IsConnector3(w) == w \in {<<"-">>, <<"t", "o">>}

NumberWords == {<<"t", "w", "o">>, <<"t", "h", "r", "e", "e">>, <<"f", "o", "u", "r">>, <<"f", "i", "v", "e">>, <<"s", "i", "x">>, <<"s", "e", "v", "e", "n">>, <<"e", "i", "g", "h", "t">>, <<"n", "i", "n", "e">>, <<"t", "e", "n">>}

\* word_to_num
word_to_num(w) ==
    CASE w = <<"t", "w", "o">> -> 2 [] w = <<"t", "h", "r", "e", "e">> -> 3 [] w = <<"f", "o", "u", "r">> -> 4 [] w = <<"f", "i", "v", "e">> -> 5
      [] w = <<"s", "i", "x">> -> 6 [] w = <<"s", "e", "v", "e", "n">> -> 7 [] w = <<"e", "i", "g", "h", "t">> -> 8 [] w = <<"n", "i", "n", "e">> -> 9
      [] w = <<"t", "e", "n">> -> 10

WordAt(words, i) == IF i \in DOMAIN words THEN words[i] ELSE <<>>

NoMatch == [ok |-> FALSE]

\* One entry of found_yoe, with the number of words its match spans
Match(min, max, is_range, is_plus, len) ==
    [ok |-> TRUE, len |-> len,
     claim |-> [min |-> min, max |-> max, is_range |-> is_range, is_plus |-> is_plus]]

\* Pattern 1 tried at word i: (\d+)\+?\s*(?:to|\-|or)?\s*(\d+)?\s*years?
\* The optional word after "years" holds no digit and is left out.
Pattern1At(words, i) ==
    LET w1 == WordAt(words, i)
        w2 == WordAt(words, i + 1)
        w3 == WordAt(words, i + 2)
        w4 == WordAt(words, i + 3)
        min_years == IntOf(LeadDigits(w1))
        is_plus == IsPlusWord(w1)
    IN  IF ~(IsDigitsWord(w1) \/ IsPlusWord(w1)) THEN NoMatch
        ELSE IF IsConnector1(w2) /\ IsDigitsWord(w3) /\ IsYears(w4)
             THEN Match(min_years, PyNum(IntOf(w3)), TRUE, is_plus, 4)
        ELSE IF IsConnector1(w2) /\ IsYears(w3)
             THEN Match(min_years, PyNone, FALSE, is_plus, 3)
        ELSE IF IsDigitsWord(w2) /\ IsYears(w3)
             THEN Match(min_years, PyNum(IntOf(w2)), TRUE, is_plus, 3)
        ELSE IF IsYears(w2)
             THEN Match(min_years, PyNone, FALSE, is_plus, 2)
        ELSE NoMatch

\* The number of words the lead of pattern 2 spans at word i (0: no lead):
\* (?:minimum|minimum\s+of|at\s+least|atleast)
Pattern2Leads(words, i) ==
    LET w1 == WordAt(words, i)
        w2 == WordAt(words, i + 1)
    IN  (IF w1 \in {<<"m", "i", "n", "i", "m", "u", "m">>, <<"a", "t", "l", "e", "a", "s", "t">>} THEN {1} ELSE {})
            \cup (IF <<w1, w2>> \in {<<<<"m", "i", "n", "i", "m", "u", "m">>, <<"o", "f">>>>, <<<<"a", "t">>, <<"l", "e", "a", "s", "t">>>>} THEN {2} ELSE {})

\* Pattern 2 tried at word i: the lead, then (\d+|two|..|ten)\s*(?:\+)?\s*years?
Pattern2At(words, i) ==
    LET fits(l) == /\ \/ IsDigitsWord(WordAt(words, i + l))
                      \/ IsPlusWord(WordAt(words, i + l))
                      \/ WordAt(words, i + l) \in NumberWords
                   /\ IsYears(WordAt(words, i + l + 1))
        leads == {l \in Pattern2Leads(words, i) : fits(l)}
    IN  IF leads = {} THEN NoMatch
        ELSE LET l == CHOOSE l \in leads : \A other \in leads : l <= other
                 w == WordAt(words, i + l)
                 years == IF w \in NumberWords THEN word_to_num(w)
                          ELSE IntOf(LeadDigits(w))
             IN  Match(years, PyNone, FALSE, FALSE, l + 2)

\* Pattern 3 tried at word i: (\d+)\s*(?:\-|to)\s*(\d+)\s*years?
Pattern3At(words, i) ==
    IF /\ IsDigitsWord(WordAt(words, i))
       /\ IsConnector3(WordAt(words, i + 1))
       /\ IsDigitsWord(WordAt(words, i + 2))
       /\ IsYears(WordAt(words, i + 3))
    THEN Match(IntOf(WordAt(words, i)), PyNum(IntOf(WordAt(words, i + 2))), TRUE, FALSE, 4)
    ELSE NoMatch

\* Pattern 4 tried at word i: \b(two|..|ten)\s+years?
Pattern4At(words, i) ==
    IF WordAt(words, i) \in NumberWords /\ IsYears(WordAt(words, i + 1))
    THEN Match(word_to_num(WordAt(words, i)), PyNone, FALSE, FALSE, 2)
    ELSE NoMatch

\* Pattern 5 tried at word i: (\d+)\s*years?\s*\((?:required|preferred)\)
Pattern5At(words, i) ==
    IF /\ IsDigitsWord(WordAt(words, i))
       /\ WordAt(words, i + 1) \in {<<"y", "e", "a", "r">>, <<"y", "e", "a", "r", "s">>}
       /\ \/ StartsWith(WordAt(words, i + 2), <<"(", "r", "e", "q", "u", "i", "r", "e", "d", ")">>)
          \/ StartsWith(WordAt(words, i + 2), <<"(", "p", "r", "e", "f", "e", "r", "r", "e", "d", ")">>)
    THEN Match(IntOf(WordAt(words, i)), PyNone, FALSE, FALSE, 3)
    ELSE NoMatch

PatternAt(p, words, i) ==
    CASE p = 1 -> Pattern1At(words, i)
      [] p = 2 -> Pattern2At(words, i)
      [] p = 3 -> Pattern3At(words, i)
      [] p = 4 -> Pattern4At(words, i)
      [] p = 5 -> Pattern5At(words, i)

\* re.finditer / re.findall: the matches from left to right, none overlapping
\* the one before
RECURSIVE FindAll(_, _, _)
FindAll(p, words, i) ==
    IF i > Len(words) THEN <<>>
    ELSE LET hit == PatternAt(p, words, i)
         IN  IF hit.ok THEN <<hit.claim>> \o FindAll(p, words, i + hit.len)
             ELSE FindAll(p, words, i + 1)

\* if years > 0 (pattern 2 only)
Positive(claims) == SelectSeq(claims, LAMBDA c : c.min > 0)

\* found_yoe after the five loops
FoundYoe(words) ==
    FindAll(1, words, 1) \o Positive(FindAll(2, words, 1)) \o FindAll(3, words, 1)
        \o FindAll(4, words, 1) \o FindAll(5, words, 1)

\* Mutant: the last claim of highest min
LastBest(found) ==
    LET top == {k \in DOMAIN found : \A h \in DOMAIN found : found[h].min <= found[k].min}
    IN  found[CHOOSE k \in top : \A h \in top : h <= k]

\* max(found_yoe, key=lambda x: x['min']): the first claim of highest min
best_match(found) ==
    LET top == {k \in DOMAIN found : \A h \in DOMAIN found : found[h].min <= found[k].min}
    IN  found[CHOOSE k \in top : \A h \in top : k <= h]

\* best_match['max'] if best_match['max'] else "Not Found"
MaxOrNotFound(max) == IF max = PyNone \/ max = PyNum(0) THEN PyNotFound ELSE max

\* One entry of all_found: "min-max", "min+" or "min"
AllFoundEntry(x) ==
    IF x.is_range THEN [form |-> "range", min |-> x.min, max |-> x.max]
    ELSE IF x.is_plus THEN [form |-> "plus", min |-> x.min, max |-> PyNone]
    ELSE [form |-> "plain", min |-> x.min, max |-> PyNone]

\* Mutant: the not-found dict reporting found
YoeNotFoundFlagged ==
    [returned |-> TRUE, min_yoe |-> PyNotFound, max_yoe |-> PyNotFound,
     is_range |-> FALSE, is_plus |-> FALSE, found |-> TRUE, all_found |-> <<>>]

\* The dict returned when there is no text or no claim
YoeNotFound ==
    [returned |-> TRUE, min_yoe |-> PyNotFound, max_yoe |-> PyNotFound,
     is_range |-> FALSE, is_plus |-> FALSE, found |-> FALSE, all_found |-> <<>>]

YoeFound(found) ==
    LET best == best_match(found)
    IN  [returned |-> TRUE, min_yoe |-> PyNum(best.min), max_yoe |-> MaxOrNotFound(best.max),
         is_range |-> best.is_range, is_plus |-> best.is_plus, found |-> TRUE,
         all_found |-> [k \in DOMAIN found |-> AllFoundEntry(found[k])]]

(* extract_requirements_section, on the characters of the text.  Positions  *)
(* count from 1; an end position is the first position after the section.   *)

Whitespace == {" ", "\n", "\t"}

Letters == UpperLetters \cup {LowerChar(c) : c \in UpperLetters}

\* section_headers, each without its optional colon: the colon changes
\* neither whether nor where a header matches
section_headers ==
    <<<<"E", "D", "U", "C", "A", "T", "I", "O", "N", "/", "E", "X", "P", "E", "R", "I", "E", "N", "C", "E">>,
      <<"E", "D", "U", "C", "A", "T", "I", "O", "N", " ", "A", "N", "D", " ", "E", "X", "P", "E", "R", "I", "E", "N", "C", "E">>,
      <<"Y", "O", "U", "'", "L", "L", " ", "B", "R", "I", "N", "G", " ", "T", "H", "E", "S", "E", " ", "Q", "U", "A", "L", "I", "F", "I", "C", "A", "T", "I", "O", "N", "S">>,
      <<"Q", "U", "A", "L", "I", "F", "I", "C", "A", "T", "I", "O", "N", "S">>,
      <<"R", "E", "Q", "U", "I", "R", "E", "M", "E", "N", "T", "S">>,
      <<"R", "E", "Q", "U", "I", "R", "E", "D", " ", "Q", "U", "A", "L", "I", "F", "I", "C", "A", "T", "I", "O", "N", "S">>,
      <<"M", "I", "N", "I", "M", "U", "M", " ", "Q", "U", "A", "L", "I", "F", "I", "C", "A", "T", "I", "O", "N", "S">>,
      <<"B", "A", "S", "I", "C", " ", "Q", "U", "A", "L", "I", "F", "I", "C", "A", "T", "I", "O", "N", "S">>,
      <<"E", "X", "P", "E", "R", "I", "E", "N", "C", "E">>,
      <<"S", "K", "I", "L", "L", "S", ",", " ", "E", "X", "P", "E", "R", "I", "E", "N", "C", "E", " ", "A", "N", "D", " ", "R", "E", "Q", "U", "I", "R", "E", "M", "E", "N", "T", "S">>,
      <<"W", "H", "A", "T", " ", "Y", "O", "U", "'", "L", "L", " ", "B", "R", "I", "N", "G">>,
      <<"R", "E", "Q", "U", "I", "R", "E", "D", " ", "S", "K", "I", "L", "L", "S", " ", "A", "N", "D", " ", "E", "X", "P", "E", "R", "I", "E", "N", "C", "E">>,
      <<"M", "I", "N", "I", "M", "U", "M", " ", "R", "E", "Q", "U", "I", "R", "E", "M", "E", "N", "T", "S">>,
      <<"R", "E", "Q", "U", "I", "R", "E", "D", " ", "S", "K", "I", "L", "L", "S", " ", "&", " ", "E", "X", "P", "E", "R", "I", "E", "N", "C", "E">>,
      <<"R", "E", "Q", "U", "I", "R", "E", "D", " ", "S", "K", "I", "L", "L", "S", " ", "A", "N", "D", " ", "E", "X", "P", "E", "R", "I", "E", "N", "C", "E">>,
      <<"K", "E", "Y", " ", "R", "E", "S", "P", "O", "N", "S", "I", "B", "I", "L", "I", "T", "I", "E", "S">>>>

\* The end markers that are plain phrases
end_section_phrases ==
    <<<<"P", "H", "Y", "S", "I", "C", "A", "L", " ", "D", "E", "M", "A", "N", "D", "S">>,
      <<"P", "H", "Y", "S", "I", "C", "A", "L", " ", "R", "E", "Q", "U", "I", "R", "E", "M", "E", "N", "T", "S">>,
      <<"W", "H", "A", "T", " ", "T", "O", " ", "E", "X", "P", "E", "C", "T">>,
      <<"A", "B", "O", "U", "T", " ", "T", "H", "E", " ", "J", "O", "B">>,
      <<"W", "H", "A", "T", " ", "W", "E", " ", "O", "F", "F", "E", "R">>,
      <<"B", "E", "N", "E", "F", "I", "T", "S">>,
      <<"A", "D", "D", "I", "T", "I", "O", "N", "A", "L", " ", "I", "N", "F", "O", "R", "M", "A", "T", "I", "O", "N">>,
      <<"A", "D", "D", "I", "T", "I", "O", "N", "A", "L", " ", "R", "E", "Q", "U", "I", "R", "E", "M", "E", "N", "T", "S">>,
      <<"S", "U", "P", "E", "R", "V", "I", "S", "O", "R", "Y", " ", "R", "E", "S", "P", "O", "N", "S", "I", "B", "I", "L", "I", "T", "I", "E", "S">>>>

\* The position of the first occurrence of term in text at or after from
\* (0: none)
IndexOf(text, term, from) ==
    LET hits == {i \in from..(Len(text) - Len(term) + 1) :
                    text[i] = term[1] /\ SubSeq(text, i, i + Len(term) - 1) = term}
    IN  IF hits = {} THEN 0 ELSE CHOOSE i \in hits : \A j \in hits : i <= j

\* re.search(header, text, re.IGNORECASE).start()
HeaderStart(lower, h) == IndexOf(lower, Lower(section_headers[h]), 1)

\* \n\n[A-Z][A-Z\s]{10,}: matching at position i (letters of either case)
CapsHeaderAt(text, i) ==
    /\ i + 13 <= Len(text)
    /\ text[i] = "\n" /\ text[i + 1] = "\n"
    /\ text[i + 2] \in Letters
    /\ \E k \in (i + 13)..Len(text) :
          /\ text[k] = ":"
          /\ \A j \in (i + 3)..(k - 1) : text[j] \in Letters \cup Whitespace

\* \n\n\*\*[A-Z][A-Z\s]{5,}\*\* matching at position i
BoldHeaderAt(text, i) ==
    /\ i + 11 <= Len(text)
    /\ text[i] = "\n" /\ text[i + 1] = "\n" /\ text[i + 2] = "*" /\ text[i + 3] = "*"
    /\ text[i + 4] \in Letters
    /\ \E k \in (i + 10)..(Len(text) - 1) :
          /\ text[k] = "*" /\ text[k + 1] = "*"
          /\ \A j \in (i + 5)..(k - 1) : text[j] \in Letters \cup Whitespace

\* The start positions of the end markers found in text[start_pos:], one per
\* marker that matches
EndCandidates(text, lower, start_pos) ==
    LET caps == {i \in start_pos..Len(text) : CapsHeaderAt(text, i)}
        bold == {i \in start_pos..Len(text) : BoldHeaderAt(text, i)}
        phrases == {IndexOf(lower, Lower(end_section_phrases[e]), start_pos) :
                        e \in DOMAIN end_section_phrases} \ {0}
    IN  caps \cup bold \cup phrases

\* end_pos: the earliest end marker, or len(text)
EndPos(text, lower, start_pos) ==
    LET ends == EndCandidates(text, lower, start_pos)
    IN  IF ends = {} THEN Len(text) + 1 ELSE CHOOSE e \in ends : \A o \in ends : e <= o

\* The least length a section must exceed, stripped
MinSectionChars == 100

NoSection == [found |-> FALSE, header |-> 0, start_pos |-> 0, end_pos |-> 0, text |-> <<>>]

\* The section that header h bounds (NoSection: the header does not occur)
SectionOf(text, h) ==
    LET lower == Lower(text)
        start_pos == HeaderStart(lower, h)
        end_pos == EndPos(text, lower, start_pos)
    IN  IF start_pos = 0 THEN NoSection
        ELSE [found |-> TRUE, header |-> h, start_pos |-> start_pos, end_pos |-> end_pos,
              text |-> SubSeq(text, start_pos, end_pos - 1)]

\* if len(requirements_text.strip()) > 100
Meaningful(section) ==
    section.found /\ Len(StripSet(section.text, Whitespace)) > MinSectionChars

\* Mutant: the loop that gives up after the first header that occurs
RECURSIVE FirstHeaderOnly(_, _)
FirstHeaderOnly(text, h) ==
    IF h > Len(section_headers) THEN NoSection
    ELSE LET section == SectionOf(text, h)
         IN  IF Meaningful(section) THEN section
             ELSE IF section.found THEN NoSection
             ELSE FirstHeaderOnly(text, h + 1)

\* The for loop from header h on: the first header whose section is
\* meaningful decides
RECURSIVE TryHeaders(_, _)
TryHeaders(text, h) ==
    IF h > Len(section_headers) THEN NoSection
    ELSE LET section == SectionOf(text, h)
         IN  IF Meaningful(section) THEN section ELSE TryHeaders(text, h + 1)

\* extract_requirements_section; found = FALSE stands for None
extract_requirements_section(text) == TryHeaders(text, 1)

\* if not jd_text or pd.isna(jd_text)
NoText(t) == t.tag = "none" \/ t.words = <<>>

\* The guard, then the unescaping (nothing to replace), the call of
\* extract_requirements_section and text.lower().  The section is kept in
\* requirements_section and not used: text_to_search = text.
ExtractYoeCall ==
    /\ ypc = "call"
    /\ IF NoText(jd_text)
       THEN /\ yoe_result' = YoeNotFound
            /\ ypc' = "returned"
            /\ UNCHANGED <<text_to_search, requirements_section>>
       ELSE /\ requirements_section' = extract_requirements_section(JoinSpace(jd_text.words))
            /\ text_to_search' = [k \in DOMAIN jd_text.words |-> Lower(jd_text.words[k])]
            /\ ypc' = "scan"
            /\ UNCHANGED yoe_result
    /\ UNCHANGED <<jd_text, found_yoe>>
    /\ UNCHANGED outsideYoe

\* The five pattern loops
ExtractYoeScan ==
    /\ ypc = "scan"
    /\ found_yoe' = FoundYoe(text_to_search)
    /\ ypc' = "select"
    /\ UNCHANGED <<jd_text, text_to_search, requirements_section, yoe_result>>
    /\ UNCHANGED outsideYoe

\* if not found_yoe: the not-found dict; otherwise the best match
ExtractYoeReturn ==
    /\ ypc = "select"
    /\ yoe_result' = IF found_yoe = <<>> THEN YoeNotFound ELSE YoeFound(found_yoe)
    /\ ypc' = "returned"
    /\ UNCHANGED <<jd_text, text_to_search, requirements_section, found_yoe>>
    /\ UNCHANGED outsideYoe

(* The inputs of extract_yoe_from_jd *)

MaxJdWords == 4

JdWords ==
    {<<"0">>, <<"3">>, <<"5">>, <<"3", "+">>, <<"t", "o">>, <<"o", "r">>, <<"y", "e", "a", "r", "s">>,
     <<"M", "i", "n", "i", "m", "u", "m">>, <<"f", "i", "v", "e">>, <<"(", "R", "e", "q", "u", "i", "r", "e", "d", ")">>, <<"e", "x", "p", "e", "r", "i", "e", "n", "c", "e">>}

InitYoe ==
    /\ ypc = "call"
    /\ jd_text \in {NoneText} \cup {Text(ws) : ws \in SeqsUpTo(JdWords, MaxJdWords)}
    /\ text_to_search = <<>>
    /\ requirements_section = [found |-> FALSE]
    /\ found_yoe = <<>>
    /\ yoe_result = [returned |-> FALSE]
    /\ OutsideYoeIdle

NextYoe ==
    \/ ExtractYoeCall
    \/ ExtractYoeScan
    \/ ExtractYoeReturn

SpecYoe == InitYoe /\ [][NextYoe]_vars

(* The inputs of extract_yoe_from_jd that hold sections: a text is built    *)
(* from phrases, each a sequence of words                                   *)

MaxJdPhrases == 4

HeaderRequirements == <<<<"R", "e", "q", "u", "i", "r", "e", "m", "e", "n", "t", "s", ":">>>>

HeaderExperience == <<<<"E", "x", "p", "e", "r", "i", "e", "n", "c", "e", ":">>>>

\* 128 characters that hold no header, no end marker and no number
LongBody ==
    <<<<"D", "e", "s", "i", "g", "n">>, <<"b", "u", "i", "l", "d">>, <<"a", "n", "d">>, <<"m", "a", "i", "n", "t", "a", "i", "n">>, <<"r", "e", "l", "i", "a", "b", "l", "e">>, <<"b", "a", "c", "k", "e", "n", "d">>, <<"s", "e", "r", "v", "i", "c", "e", "s">>, <<"w", "i", "t", "h">>, <<"s", "t", "r", "o", "n", "g">>, <<"c", "o", "m", "m", "u", "n", "i", "c", "a", "t", "i", "o", "n">>, <<"a", "n", "d">>, <<"c", "o", "l", "l", "a", "b", "o", "r", "a", "t", "i", "o", "n">>, <<"a", "c", "r", "o", "s", "s">>, <<"d", "i", "s", "t", "r", "i", "b", "u", "t", "e", "d">>, <<"p", "r", "o", "d", "u", "c", "t">>, <<"t", "e", "a", "m", "s">>>>

PlusYears == <<<<"3", "+">>, <<"y", "e", "a", "r", "s">>>>

PlainYears == <<<<"1", "0">>, <<"y", "e", "a", "r", "s">>>>

EndBenefits == <<<<"B", "e", "n", "e", "f", "i", "t", "s">>>>

\* A blank line and a heading in capitals
EndCapsHeading == <<<<"\n", "\n", "C", "O", "M", "P", "A", "N", "Y">>, <<"O", "V", "E", "R", "V", "I", "E", "W", ":">>>>

JdPhrases ==
    {HeaderRequirements, HeaderExperience, LongBody, PlusYears, PlainYears, EndBenefits,
     EndCapsHeading}

\* The words of the phrases, in order
RECURSIVE Flatten(_)
Flatten(phrases) ==
    IF phrases = <<>> THEN <<>> ELSE Head(phrases) \o Flatten(Tail(phrases))

InitYoeSection ==
    /\ ypc = "call"
    /\ jd_text \in {Text(Flatten(ps)) : ps \in SeqsUpTo(JdPhrases, MaxJdPhrases)}
    /\ text_to_search = <<>>
    /\ requirements_section = [found |-> FALSE]
    /\ found_yoe = <<>>
    /\ yoe_result = [returned |-> FALSE]
    /\ OutsideYoeIdle

SpecYoeSection == InitYoeSection /\ [][NextYoe]_vars

-----------------------------------------------------------------------------
(* extract_yoe_from_jd: the claim selected and the not-found result *)

YoeReturned == ypc = "returned"

\* The highest min among the candidate claims
MaxMin(found) ==
    CHOOSE v \in {found[k].min : k \in DOMAIN found} :
        \A k \in DOMAIN found : found[k].min <= v

\* What the result shows for a claim's max: the number, or "Not Found" for a
\* claim without max
ShownMax(max) == IF max = PyNone THEN PyNotFound ELSE max

\* C14: when at least one mention is found, min_yoe is the highest min over
\* the candidate claims of all five patterns, and max_yoe, is_range and
\* is_plus are those of one claim attaining it.
C14_HighestMinimum ==
    (YoeReturned /\ found_yoe # <<>>) =>
        /\ yoe_result.min_yoe = PyNum(MaxMin(found_yoe))
        /\ \E k \in DOMAIN found_yoe :
               /\ found_yoe[k].min = MaxMin(found_yoe)
               /\ yoe_result.max_yoe = ShownMax(found_yoe[k].max)
               /\ yoe_result.is_range = found_yoe[k].is_range
               /\ yoe_result.is_plus = found_yoe[k].is_plus

\* The words of the argument, lower-cased as the patterns see them
SearchedWords == [k \in DOMAIN jd_text.words |-> Lower(jd_text.words[k])]

\* The text holds the phrase "X+ years" at word i
PlusPhraseAt(i) ==
    /\ jd_text.tag = "text"
    /\ i \in DOMAIN jd_text.words
    /\ IsPlusWord(SearchedWords[i])
    /\ IsYears(WordAt(SearchedWords, i + 1))

\* The numbers the text names other than at word i, in digits or spelled out
OtherNumbers(i) ==
    {IntOf(LeadDigits(SearchedWords[k])) :
         k \in {h \in DOMAIN SearchedWords \ {i} :
                    IsDigitsWord(SearchedWords[h]) \/ IsPlusWord(SearchedWords[h])}}
        \cup {word_to_num(SearchedWords[k]) :
                  k \in {h \in DOMAIN SearchedWords \ {i} : SearchedWords[h] \in NumberWords}}

\* C15 as stated: for every text holding a phrase "X+ years" the result has
\* min_yoe = X and is_plus true.
C15_PlusPhrase ==
    YoeReturned =>
        \A i \in DOMAIN jd_text.words :
            PlusPhraseAt(i) =>
                /\ yoe_result.min_yoe = PyNum(IntOf(LeadDigits(SearchedWords[i])))
                /\ yoe_result.is_plus

\* C15 amended: for every text holding a phrase "X+ years" in which every
\* other number is smaller than X, the result has min_yoe = X and is_plus
\* true.
C15_PlusPhraseHighest ==
    YoeReturned =>
        \A i \in DOMAIN jd_text.words :
            (/\ PlusPhraseAt(i)
             /\ \A v \in OtherNumbers(i) : v < IntOf(LeadDigits(SearchedWords[i]))) =>
                /\ yoe_result.min_yoe = PyNum(IntOf(LeadDigits(SearchedWords[i])))
                /\ yoe_result.is_plus

\* C15 witness: "X+ years" next to a smaller number and claimed by more than
\* one pattern or next to another claim; the plus claim is returned
C15_Witness ==
    /\ YoeReturned
    /\ \E i \in DOMAIN jd_text.words :
           /\ PlusPhraseAt(i)
           /\ OtherNumbers(i) # {}
           /\ \A v \in OtherNumbers(i) : v < IntOf(LeadDigits(SearchedWords[i]))
    /\ Len(found_yoe) >= 2
    /\ yoe_result.min_yoe = PyNum(3)
    /\ yoe_result.is_plus

\* C16: whenever min_yoe and max_yoe are both numbers min_yoe <= max_yoe, and
\* every candidate claim has min >= 0.
C16_MinAtMostMax ==
    /\ (YoeReturned /\ ~IsNotFound(yoe_result.min_yoe) /\ ~IsNotFound(yoe_result.max_yoe)) =>
           yoe_result.min_yoe.num <= yoe_result.max_yoe.num
    /\ \A k \in DOMAIN found_yoe : found_yoe[k].min >= 0

\* No word of the text starts with "year", letter case aside
NoYearsWord == \A k \in DOMAIN jd_text.words : ~IsYears(Lower(jd_text.words[k]))

-----------------------------------------------------------------------------
(* ner_resume_hybrid.py: extract_total_experience *)

(* The resume text is a sequence of lines.  A line is a section header, a   *)
(* dated line or other text: [kind, m1, y1, m2, y2] with                    *)
(*   "experience"  a line holding EXPERIENCE or EMPLOYMENT HISTORY,         *)
(*   "end"         a line holding EDUCATION, PROJECTS or SKILLS,            *)
(*   "range"       "May 2023 - April 2024" (months m1, m2, years y1, y2),   *)
(*   "ongoing"     "May 2023 - Present" (month m1, year y1),                *)
(*   "year"        "2018 - Present" (year y1),                              *)
(*   "other"       text with no date and no header word.                    *)

Line(kind, m1, y1, m2, y2) == [kind |-> kind, m1 |-> m1, y1 |-> y1, m2 |-> m2, y2 |-> y2]

\* text_upper.find(keyword) over exp_keywords: the first experience line, 0 for -1
FindExperience(text) ==
    LET hits == {k \in DOMAIN text : text[k].kind = "experience"}
    IN  IF hits = {} THEN 0 ELSE CHOOSE k \in hits : \A h \in hits : k <= h

\* The lowest text_upper.find(keyword, exp_start + 10) over end_keywords,
\* len(text) when there is none
FindEnd(text, start) ==
    LET hits == {k \in DOMAIN text : k > start /\ text[k].kind = "end"}
    IN  IF hits = {} THEN Len(text) + 1 ELSE CHOOSE k \in hits : \A h \in hits : k <= h

\* The lines of experience_section = text[exp_start:exp_end]
Section(start, end) == (start + 1)..(end - 1)

\* Pattern 1 on a line: (end_year - start_year) * 12 + (end_month - start_month)
RangeMonths(line) == (line.y2 - line.y1) * 12 + (line.m2 - line.m1)

\* The pattern-1 lines that are counted: if months > 0
CountedRanges(text, section) ==
    {k \in section : text[k].kind = "range" /\ RangeMonths(text[k]) > 0}

\* Pattern 2 on a line: (current_year - start_year) * 12 + (current_month - start_month)
OngoingMonths(line, today) == (today.year - line.y1) * 12 + (today.month - line.m1)

\* Pattern 4 on a line: (current_year - start_year) * 12 + current_month
YearMonths(line, today) == (today.year - line.y1) * 12 + today.month

\* Pattern 4 matches the "2023 - Present" of both kinds of ongoing line and
\* skips a match that lies inside a span of found_ranges
Pattern4Lines(text, section, ranges) ==
    {k \in section : text[k].kind \in {"ongoing", "year"} /\ k \notin ranges}

RECURSIVE SumOver(_, _)
SumOver(S, f) ==
    IF S = {} THEN 0
    ELSE LET k == CHOOSE k \in S : TRUE IN f[k] + SumOver(S \ {k}, f)

\* total_months after the three loops
TotalMonths(text, section, today) ==
    LET ranges == CountedRanges(text, section)
        p1 == [k \in ranges |-> RangeMonths(text[k])]
        on == {k \in section : text[k].kind = "ongoing" /\ OngoingMonths(text[k], today) > 0}
        p2 == [k \in on |-> OngoingMonths(text[k], today)]
        yr == {k \in Pattern4Lines(text, section, ranges) :
                   0 < YearMonths(text[k], today) /\ YearMonths(text[k], today) <= 600}
        p4 == [k \in yr |-> YearMonths(text[k], today)]
    IN  SumOver(ranges, p1) + SumOver(on, p2) + SumOver(yr, p4)

\* round(total_months / 12, 1) if total_months > 0 else 0
YearsOf(months) == IF months > 0 THEN RoundTo(Rat(months, 12), 10) ELSE RInt(0)

\* Mutant: no reset of a total above 50 years
CapYearsOff(years) == years

\* if total_years > 50: total_years = 0
CapYears(years) == IF RLt(RInt(50), years) THEN RInt(0) ELSE years

\* The search for the header: return 0 without one, otherwise the section bounds
ExtractExperienceCall ==
    /\ xpc = "call"
    /\ exp_start' = FindExperience(resume_text)
    /\ IF exp_start' = 0
       THEN /\ total_years' = RInt(0)
            /\ xpc' = "returned"
            /\ UNCHANGED exp_end
       ELSE /\ exp_end' = FindEnd(resume_text, exp_start')
            /\ xpc' = "scan"
            /\ UNCHANGED total_years
    /\ UNCHANGED <<resume_text, now, total_months, found_ranges>>
    /\ UNCHANGED outsideExp

\* The loops of patterns 1, 2 and 4 over the section
ExtractExperienceScan ==
    /\ xpc = "scan"
    /\ found_ranges' = CountedRanges(resume_text, Section(exp_start, exp_end))
    /\ total_months' = TotalMonths(resume_text, Section(exp_start, exp_end), now)
    /\ xpc' = "total"
    /\ UNCHANGED <<resume_text, now, exp_start, exp_end, total_years>>
    /\ UNCHANGED outsideExp

\* The rounding, the reset above 50 and the return
ExtractExperienceReturn ==
    /\ xpc = "total"
    /\ total_years' = CapYears(YearsOf(total_months))
    /\ xpc' = "returned"
    /\ UNCHANGED <<resume_text, now, exp_start, exp_end, total_months, found_ranges>>
    /\ UNCHANGED outsideExp

(* The inputs of extract_total_experience *)

MaxResumeLines == 3

ResumeLines ==
    {Line("experience", 0, 0, 0, 0),
     Line("end", 0, 0, 0, 0),
     Line("other", 0, 0, 0, 0),
     Line("range", 5, 2023, 4, 2024),
     Line("range", 1, 1970, 12, 2023),
     Line("range", 6, 2022, 6, 2022),
     Line("ongoing", 5, 2023, 0, 0),
     Line("year", 0, 2018, 0, 0)}

NowValues == {[year |-> 2026, month |-> 11], [year |-> 2023, month |-> 2]}

InitExp ==
    /\ xpc = "call"
    /\ resume_text \in SeqsUpTo(ResumeLines, MaxResumeLines)
    /\ now \in NowValues
    /\ exp_start = 0
    /\ exp_end = 0
    /\ total_months = 0
    /\ found_ranges = {}
    /\ total_years = RInt(-1)
    /\ OutsideExpIdle

NextExp ==
    \/ ExtractExperienceCall
    \/ ExtractExperienceScan
    \/ ExtractExperienceReturn

SpecExp == InitExp /\ [][NextExp]_vars

-----------------------------------------------------------------------------
(* extract_total_experience: the range of the result *)

ExpReturned == xpc = "returned"

\* No line holds an experience header
NoHeader == \A k \in DOMAIN resume_text : resume_text[k].kind # "experience"

\* C18: extract_total_experience returns 0 when the text has no experience
\* header, returns 0 when the total computed exceeds 50 years, and always
\* returns a value between 0 and 50 inclusive.
C18_ExperienceInRange ==
    ExpReturned =>
        /\ NoHeader => total_years = RInt(0)
        /\ (total_months > 0 /\ RLt(RInt(50), RoundTo(Rat(total_months, 12), 10))) =>
               total_years = RInt(0)
        /\ (~NoHeader /\ total_months > 0
                /\ RLeq(RoundTo(Rat(total_months, 12), 10), RInt(50))) =>
               total_years = RoundTo(Rat(total_months, 12), 10)
        /\ RLeq(RInt(0), total_years)
        /\ RLeq(total_years, RInt(50))

\* C18 witness: a section whose dated lines add up to more than 50 years,
\* returned as 0
C18_Witness ==
    /\ ExpReturned
    /\ ~NoHeader
    /\ total_months > 600
    /\ total_years = RInt(0)

-----------------------------------------------------------------------------
(* llm_extractor.py: extract_entities_with_llm, validate_skills,            *)
(* validate_education and cleanup_merged_entities                           *)

\* The blacklist of validate_skills
SkillBlacklist ==
    {<<"e", "x", "p", "e", "r", "i", "e", "n", "c", "e">>,
     <<"k", "n", "o", "w", "l", "e", "d", "g", "e">>,
     <<"u", "n", "d", "e", "r", "s", "t", "a", "n", "d", "i", "n", "g">>,
     <<"a", "b", "i", "l", "i", "t", "y">>,
     <<"w", "o", "r", "k", "i", "n", "g">>,
     <<"e", "x", "p", "e", "r", "t", "i", "s", "e">>,
     <<"p", "r", "o", "f", "i", "c", "i", "e", "n", "c", "y">>,
     <<"f", "a", "m", "i", "l", "i", "a", "r", "i", "t", "y">>,
     <<"b", "a", "c", "k", "g", "r", "o", "u", "n", "d">>,
     <<"m", "a", "c", "h", "i", "n", "e", " ", "l", "e", "a", "r", "n", "i", "n", "g", " ", "e", "x", "p", "e", "r", "i", "e", "n", "c", "e">>,
     <<"d", "e", "e", "p", " ", "l", "e", "a", "r", "n", "i", "n", "g", " ", "e", "x", "p", "e", "r", "i", "e", "n", "c", "e">>,
     <<"f", "i", "n", "e", "-", "t", "u", "n", "i", "n", "g">>,
     <<"c", "l", "o", "u", "d", " ", "p", "l", "a", "t", "f", "o", "r", "m", "s">>}

\* ' in ', ' of ', ' with '
PhraseWords == {<<" ", "i", "n", " ">>, <<" ", "o", "f", " ">>, <<" ", "w", "i", "t", "h", " ">>}

\* The tests of validate_skills on one skill
ValidSkill(skill) ==
    LET skill_lower == Clean(skill)
    IN  /\ ~(Len(skill) > 30)
        /\ ~AnyTerm(skill_lower, SkillBlacklist)
        /\ ~AnyTerm(skill_lower, PhraseWords)

\* Mutant: the validation that keeps every skill
validate_skills_off(skills) == skills

\* validate_skills
validate_skills(skills) == SelectSeq(skills, ValidSkill)

\* An education entry of a reply: a string, or a dict with degree and field
StrEntry(s) == [kind |-> "str", text |-> s, degree |-> <<>>, field |-> <<>>]

DictEntry(degree, field) == [kind |-> "dict", text |-> <<>>, degree |-> degree, field |-> field]

AsEntries(list) == [k \in DOMAIN list |-> StrEntry(list[k])]

\* edu.strip().strip("'\"{}").strip()
EduClean(edu) == Strip(StripSet(Strip(edu), {"'", "\"", "{", "}"}))

\* What validate_education appends for one entry (<<>>: nothing, <<t>>: t)
ValidEducation(edu) ==
    IF edu.kind = "dict"
    THEN IF edu.degree = <<>> THEN <<>>
         ELSE IF edu.field # <<>> THEN <<Strip(edu.degree \o <<" ">> \o edu.field)>>
         ELSE <<edu.degree>>
    ELSE LET edu_clean == EduClean(edu.text)
         IN  IF Len(edu_clean) > 60 THEN <<>>
             ELSE IF \/ StartsWith(edu_clean, <<"{">>)
                     \/ Contains(Lower(edu_clean), <<"i", "n", "s", "t", "i", "t", "u", "t", "i", "o", "n">>)
                  THEN <<>>
             ELSE <<edu_clean>>

\* validate_education
RECURSIVE validate_education(_)
validate_education(education_list) ==
    IF education_list = <<>> THEN <<>>
    ELSE ValidEducation(Head(education_list)) \o validate_education(Tail(education_list))

\* The dict returned when the extraction request fails: skills and education only
ExtractionFailed ==
    [returned |-> TRUE, full |-> FALSE, name |-> <<>>, email |-> <<>>, phone |-> <<>>,
     skills |-> <<>>, education |-> <<>>, experience_years |-> 0]

\* The dict built from a reply
Extraction(reply, type) ==
    [returned |-> TRUE, full |-> TRUE, name |-> reply.name, email |-> reply.email,
     phone |-> reply.phone, skills |-> validate_skills(reply.skills),
     education |-> validate_education(reply.education),
     experience_years |-> IF type = "Resume" THEN reply.experience_years ELSE 0]

Range(seq) == {seq[k] : k \in DOMAIN seq}

\* list(set(..)): the elements once each, in an order the hash decides
Orderings(S) ==
    {f \in [1..Cardinality(S) -> S] : \A i, j \in 1..Cardinality(S) : f[i] = f[j] => i = j}

\* Mutant: the fallback that leaves out what the LLM found
FallbackEntriesNerOnly(ner, llm) == {e \in Range(ner) : e # <<>>}

\* set([s for s in (ner + llm) if s])
FallbackEntries(ner, llm) == {e \in Range(ner \o llm) : e # <<>>}

CleanupResult(skills, education) ==
    [returned |-> TRUE, skills |-> skills, education |-> education]

(* The replies of the model *)

AnnLee == <<"A", "n", "n", " ", "L", "e", "e">>

GenericSkill == <<"W", "o", "r", "k", "i", "n", "g", " ", "k", "n", "o", "w", "l", "e", "d", "g", "e">>

LongSkill ==
    <<"N", "a", "t", "u", "r", "a", "l", " ", "L", "a", "n", "g", "u", "a", "g", "e", " ", "P", "r", "o", "c", "e", "s", "s", "i", "n", "g", " ", "N", "L", "P">>

EduQuotedMBA == <<"'", "M", "B", "A", "'">>

EduInstitution == <<"I", "n", "s", "t", "i", "t", "u", "t", "i", "o", "n", ":", " ", "M", "I", "T">>

ComputerScience == <<"C", "o", "m", "p", "u", "t", "e", "r", " ", "S", "c", "i", "e", "n", "c", "e">>

ExtractReplies ==
    {[name |-> AnnLee, email |-> <<>>, phone |-> <<>>, skills |-> <<Python, GenericSkill>>,
      education |-> <<StrEntry(EduQuotedMBA)>>, experience_years |-> 3],
     [name |-> <<>>, email |-> <<>>, phone |-> <<>>, skills |-> <<AWS>>,
      education |-> <<DictEntry(EduBTech, ComputerScience)>>, experience_years |-> 0],
     [name |-> <<>>, email |-> <<>>, phone |-> <<>>, skills |-> <<>>,
      education |-> <<>>, experience_years |-> 0]}

CleanupReplies ==
    {[skills |-> <<Python, LongSkill>>,
      education |-> <<StrEntry(EduInstitution), DictEntry(<<>>, ComputerScience)>>],
     [skills |-> <<AWS>>, education |-> <<StrEntry(EduBTech)>>]}

\* extract_entities_with_llm: the reply validated, or on any exception the
\* dict with empty skills and education
ExtractEntitiesWithLlm ==
    /\ lpc = "extract"
    /\ \/ /\ llm_result' = ExtractionFailed
          /\ llm_failed' = llm_failed \cup {"extract"}
       \/ /\ \E reply \in ExtractReplies : llm_result' = Extraction(reply, text_type)
          /\ UNCHANGED llm_failed
    /\ llm_calls' = llm_calls + 1
    /\ lpc' = "cleanup"
    /\ UNCHANGED <<text_type, ner_skills, ner_education, final_result>>
    /\ UNCHANGED outsideLlm

\* cleanup_merged_entities(ner_skills, ner_education, llm_result.get("skills", []),
\* llm_result.get("education", []), text): the reply validated, or on any
\* exception the manual merge validated
CleanupMergedEntities ==
    /\ lpc = "cleanup"
    /\ \/ /\ \E all_skills \in Orderings(FallbackEntries(ner_skills, llm_result.skills)) :
             \E all_education \in Orderings(FallbackEntries(ner_education, llm_result.education)) :
                 final_result' = CleanupResult(validate_skills(all_skills),
                                               validate_education(AsEntries(all_education)))
          /\ llm_failed' = llm_failed \cup {"cleanup"}
       \/ /\ \E reply \in CleanupReplies :
                 final_result' = CleanupResult(validate_skills(reply.skills),
                                               validate_education(reply.education))
          /\ UNCHANGED llm_failed
    /\ llm_calls' = llm_calls + 1
    /\ lpc' = "returned"
    /\ UNCHANGED <<text_type, ner_skills, ner_education, llm_result>>
    /\ UNCHANGED outsideLlm

(* The inputs: what the NER and regex passes found *)

MaxNerSkills == 2

NerSkillEntries == {<<>>, Python, AWS, GenericSkill, LongSkill}

NerEducationLists ==
    {<<>>, <<EduBTech>>, <<EduQuotedMBA, <<>>>>, <<EduInstitution, EduBTech>>}

InitLlm ==
    /\ lpc = "extract"
    /\ text_type \in {"JD", "Resume"}
    /\ ner_skills \in SeqsUpTo(NerSkillEntries, MaxNerSkills)
    /\ ner_education \in NerEducationLists
    /\ llm_result = [returned |-> FALSE]
    /\ final_result = [returned |-> FALSE]
    /\ llm_calls = 0
    /\ llm_failed = {}
    /\ OutsideLlmIdle

NextLlm ==
    \/ ExtractEntitiesWithLlm
    \/ CleanupMergedEntities

SpecLlm == InitLlm /\ [][NextLlm]_vars

-----------------------------------------------------------------------------
(* cleanup_merged_entities: the fallback when the reconciliation call fails *)

LlmReturned == lpc = "returned"

\* The non-empty entries of the two lists, as a set
NonEmptyUnion(ner, llm) == {e \in Range(ner) \cup Range(llm) : e # <<>>}

\* C19: when the reconciliation call fails cleanup_merged_entities returns
\* validate_skills of the set-union of the non-empty NER and LLM skill
\* entries and validate_education of the set-union of the non-empty NER and
\* LLM education entries, the union taken in some order.
C19_FallbackMerge ==
    (LlmReturned /\ "cleanup" \in llm_failed) =>
        /\ final_result.returned
        /\ \E order \in Orderings(NonEmptyUnion(ner_skills, llm_result.skills)) :
               final_result.skills = validate_skills(order)
        /\ \E order \in Orderings(NonEmptyUnion(ner_education, llm_result.education)) :
               final_result.education = validate_education(AsEntries(order))

\* C19 witness: the extraction call answered and the reconciliation call
\* failed; the NER list holds an empty and a generic entry, the result holds
\* a skill that only the LLM found, and the quoted and the unquoted MBA are
\* both kept, cleaned
C19_Witness ==
    /\ LlmReturned
    /\ llm_failed = {"cleanup"}
    /\ <<>> \in Range(ner_skills)
    /\ GenericSkill \in Range(ner_skills)
    /\ Python \in Range(llm_result.skills)
    /\ Range(final_result.skills) = {Python}
    /\ ner_education = <<EduQuotedMBA, <<>>>>
    /\ final_result.education = <<EduClean(EduQuotedMBA), EduClean(EduQuotedMBA)>>

-----------------------------------------------------------------------------
(* ner_resume_hybrid.py: combined_extraction *)

\* len(s.split()): the number of runs of characters other than spaces
RECURSIVE WordCount(_)
WordCount(s) ==
    IF s = <<>> THEN 0
    ELSE IF Head(s) = " " THEN WordCount(Tail(s))
    ELSE IF Len(s) = 1 \/ s[2] = " " THEN 1 + WordCount(Tail(s))
    ELSE WordCount(Tail(s))

\* The test on the first line: 2 to 4 words, under 50 characters, no at
\* sign, 'http' or ':' (the lines hold no bullet), no technical term, an
\* upper-case first letter
NameLike(line) ==
    /\ 2 <= WordCount(line) /\ WordCount(line) <= 4
    /\ Len(line) < 50
    /\ ~AnyTerm(line, {<<"@">>, <<"h", "t", "t", "p">>, <<":">>})
    /\ ~AnyTerm(line, {<<"H", "T", "M", "L">>, <<"C", "S", "S">>, <<"J", "a", "v", "a", "S", "c", "r", "i", "p", "t">>, <<"P", "y", "t", "h", "o", "n">>, <<"J", "a", "v", "a">>})
    /\ line[1] \in UpperLetters

\* results as first built, with the name taken from the first line
FirstResults(line) ==
    [returned |-> FALSE,
     name |-> IF line # <<>> /\ NameLike(line) THEN <<line>> ELSE <<>>,
     email |-> <<>>, phone |-> <<>>, skills |-> <<>>, companies |-> <<>>,
     education |-> <<>>, designation |-> <<>>, location |-> <<>>,
     experience_years |-> RInt(0)]

\* results = {..} and step 1, the name from the first line
CombinedExtractionName ==
    /\ cpc = "name"
    /\ results' = FirstResults(first_line)
    /\ cpc' = "trained"
    /\ UNCHANGED <<first_line, llm_up, error>>
    /\ UNCHANGED outsideResume

\* Step 2: doc_trained = nlp_trained(resume_text).  nlp_trained is the path
\* BASE_DIR / "pre-trained-ner-mode", not a loaded pipeline, and calling a
\* path raises TypeError; nothing in combined_extraction catches it, so the
\* steps after it never run.
CombinedExtractionTrainedModel ==
    /\ cpc = "trained"
    /\ error' = "TypeError"
    /\ cpc' = "raised"
    /\ UNCHANGED <<first_line, llm_up, results>>
    /\ UNCHANGED outsideResume

(* The inputs of combined_extraction: the first line, the dated lines that  *)
(* extract_total_experience reads, the date, and the state of the LLM        *)
(* service                                                                   *)

ResumeFirstLines ==
    {<<>>, AnnLee, <<"a", "n", "n", " ", "l", "e", "e">>, <<"P", "y", "t", "h", "o", "n", " ", "D", "e", "v", "e", "l", "o", "p", "e", "r">>,
     <<"R", "e", "s", "u", "m", "e", ":", " ", "A", "n", "n", " ", "L", "e", "e">>, <<"R", "e", "s", "u", "m", "e">>}

InitResume ==
    /\ cpc = "name"
    /\ first_line \in ResumeFirstLines
    /\ llm_up \in BOOLEAN
    /\ results = [returned |-> FALSE]
    /\ error = ""
    /\ xpc = "idle"
    /\ resume_text \in SeqsUpTo(ResumeLines, MaxResumeLines)
    /\ now \in NowValues
    /\ exp_start = 0
    /\ exp_end = 0
    /\ total_months = 0
    /\ found_ranges = {}
    /\ total_years = RInt(-1)
    /\ ScoreIdle /\ MatchIdle /\ EduIdle /\ YoeIdle /\ LlmIdle /\ PipeIdle /\ BatchIdle

NextResume ==
    \/ CombinedExtractionName
    \/ CombinedExtractionTrainedModel

SpecResume == InitResume /\ [][NextResume]_vars

-----------------------------------------------------------------------------
(* combined_extraction when the LLM extraction fails *)

ResumeFinished == cpc \in {"returned", "raised"}

\* What extract_total_experience returns for the text and the date
RegexExperience ==
    IF FindExperience(resume_text) = 0 THEN RInt(0)
    ELSE LET start == FindExperience(resume_text)
             section == Section(start, FindEnd(resume_text, start))
         IN  CapYears(YearsOf(TotalMonths(resume_text, section, now)))

\* The first half of the statement below: a failed extraction request makes
\* extract_entities_with_llm return empty skills and education lists.
ExtractionFailureIsEmpty ==
    (lpc \in {"cleanup", "returned"} /\ "extract" \in llm_failed) =>
        /\ llm_result.returned
        /\ llm_result.skills = <<>>
        /\ llm_result.education = <<>>

\* C20: when the LLM extraction fails combined_extraction still returns: the
\* name is the one found without the LLM and experience_years is what
\* extract_total_experience computes.
C20_ProceedsWithoutLlm ==
    (ResumeFinished /\ ~llm_up) =>
        /\ cpc = "returned"
        /\ error = ""
        /\ results.name = FirstResults(first_line).name
        /\ results.experience_years = RegexExperience

-----------------------------------------------------------------------------
(* scorer.py: score_resume_for_jd, steps 1 and 2.  The function calls       *)
(* extract_yoe_from_jd, extract_requirements_section,                       *)
(* extract_skills_education_ner (whose two LLM requests are the actions     *)
(* ExtractEntitiesWithLlm and CleanupMergedEntities) and combined_extraction *)
(* in this order; the steps after combined_extraction are Step6CalculateScore *)
(* and Step7Decide.                                                          *)

\* The printable characters in code point order, from the space (32) on; the
\* place of the grave accent (96), which a string here cannot hold, is empty
Ascii ==
    <<" ", "!", "\"", "#", "$", "%", "&", "'", "(", ")", "*", "+", ",", "-", ".", "/",
      "0", "1", "2", "3", "4", "5", "6", "7", "8", "9", ":", ";", "<", "=", ">", "?",
      "@", "A", "B", "C", "D", "E", "F", "G", "H", "I", "J", "K", "L", "M", "N", "O",
      "P", "Q", "R", "S", "T", "U", "V", "W", "X", "Y", "Z", "[", "\\", "]", "^", "_",
      "", "a", "b", "c", "d", "e", "f", "g", "h", "i", "j", "k", "l", "m", "n", "o",
      "p", "q", "r", "s", "t", "u", "v", "w", "x", "y", "z", "{", "|", "}", "~">>

\* ord(c)
Code(c) == 31 + CHOOSE i \in DOMAIN Ascii : Ascii[i] = c

\* a < b for strings: by code point, a proper prefix first
RECURSIVE StrLess(_, _)
StrLess(a, b) ==
    IF b = <<>> THEN FALSE
    ELSE IF a = <<>> THEN TRUE
    ELSE IF Head(a) # Head(b) THEN Code(Head(a)) < Code(Head(b))
    ELSE StrLess(Tail(a), Tail(b))

\* Mutant: the list as it is, not made a set and not sorted
KeepList(list) == list

\* sorted(list(set(list)))
SortedSet(list) ==
    CHOOSE f \in Orderings(Range(list)) :
        \A i, j \in DOMAIN f : i < j => StrLess(f[i], f[j])

\* [s.lower() for s in jd_skills_raw]
LowerAll(list) == [k \in DOMAIN list |-> Lower(list[k])]

\* Lines 90-98: jd_yoe from the result of extract_yoe_from_jd, the
\* requirements section of the JD, then the call of
\* extract_skills_education_ner, which has run the NER pass and the skill
\* regexes (ner_skills, ner_education) when it makes its first LLM request
ScoreJdYoe ==
    /\ pc = "step1"
    /\ ypc = "returned"
    /\ lpc = "idle"
    /\ jd_yoe' = yoe_result.min_yoe
    /\ req_section' = extract_requirements_section(JoinSpace(jd_text.words))
    /\ lpc' = "extract"
    /\ pc' = "ner"
    /\ UNCHANGED <<skill_match_pct, semantic_sim, resume_yoe, edu_score, calc, decision, status>>
    /\ UNCHANGED <<jd_skill_list, jd_education, score_error>>
    /\ UNCHANGED <<text_type, ner_skills, ner_education, llm_result, final_result, llm_calls,
                   llm_failed>>
    /\ UNCHANGED <<matchVars, eduVars, yoeVars, expVars, resumeVars, batchVars>>

\* Lines 98-104: jd_skills and jd_education from what
\* extract_skills_education_ner returned, then the call of combined_extraction
ScoreJdLists ==
    /\ pc = "ner"
    /\ lpc = "returned"
    /\ cpc = "idle"
    /\ jd_skill_list' = LowerAll(final_result.skills)
    /\ jd_education' = SortedSet(final_result.education)
    /\ cpc' = "name"
    /\ pc' = "step2"
    /\ UNCHANGED <<skill_match_pct, semantic_sim, jd_yoe, resume_yoe, edu_score, calc, decision,
                   status>>
    /\ UNCHANGED <<req_section, score_error>>
    /\ UNCHANGED <<first_line, llm_up, results, error>>
    /\ UNCHANGED <<matchVars, eduVars, yoeVars, expVars, llmVars, batchVars>>

\* Line 104 when combined_extraction raises: nothing in score_resume_for_jd
\* catches the exception, so it leaves the function
ScoreResumeRaised ==
    /\ pc = "step2"
    /\ cpc = "raised"
    /\ score_error' = error
    /\ pc' = "raised"
    /\ UNCHANGED <<skill_match_pct, semantic_sim, jd_yoe, resume_yoe, edu_score, calc, decision,
                   status>>
    /\ UNCHANGED <<req_section, jd_skill_list, jd_education>>
    /\ UNCHANGED <<matchVars, eduVars, yoeVars, expVars, llmVars, resumeVars, batchVars>>

(* The inputs of score_resume_for_jd: the JD text, what the NER pass and    *)
(* the skill regexes find in it, the first line of the resume, and whether  *)
(* the LLM service answers                                                   *)

JdPipelineTexts ==
    {Text(<<>>), Text(PlusYears), Text(HeaderRequirements \o LongBody \o PlainYears)}

JdNerSkillEntries == {Python, python, GenericSkill}

\* skills_ner = list(set(skills_ner)): no entry twice
JdNerSkillLists ==
    {l \in SeqsUpTo(JdNerSkillEntries, MaxNerSkills) :
        \A i, j \in DOMAIN l : l[i] = l[j] => i = j}

JdNerEducationLists == {<<>>, <<EduBTech>>, <<EduQuotedMBA, EduClean(EduQuotedMBA)>>}

InitPipeline ==
    /\ pc = "step1"
    /\ skill_match_pct = RInt(0)
    /\ semantic_sim = RInt(0)
    /\ jd_yoe = PyNotFound
    /\ resume_yoe = RInt(0)
    /\ edu_score = RInt(0)
    /\ calc = NoResult
    /\ decision = ""
    /\ status = ""
    /\ PipeIdle
    /\ ypc = "call"
    /\ jd_text \in JdPipelineTexts
    /\ text_to_search = <<>>
    /\ requirements_section = [found |-> FALSE]
    /\ found_yoe = <<>>
    /\ yoe_result = [returned |-> FALSE]
    /\ lpc = "idle"
    /\ text_type = "JD"
    /\ ner_skills \in JdNerSkillLists
    /\ ner_education \in JdNerEducationLists
    /\ llm_result = [returned |-> FALSE]
    /\ final_result = [returned |-> FALSE]
    /\ llm_calls = 0
    /\ llm_failed = {}
    /\ cpc = "idle"
    /\ first_line \in {<<>>, AnnLee}
    /\ llm_up \in BOOLEAN
    /\ results = [returned |-> FALSE]
    /\ error = ""
    /\ MatchIdle /\ EduIdle /\ ExpIdle /\ BatchIdle

NextPipeline ==
    \/ ExtractYoeCall
    \/ ExtractYoeScan
    \/ ExtractYoeReturn
    \/ ScoreJdYoe
    \/ ExtractEntitiesWithLlm
    \/ CleanupMergedEntities
    \/ ScoreJdLists
    \/ CombinedExtractionName
    \/ CombinedExtractionTrainedModel
    \/ ScoreResumeRaised

SpecPipeline == InitPipeline /\ [][NextPipeline]_vars

-----------------------------------------------------------------------------
(* The extracted lists and duplicates *)

\* No two entries of the list are equal when case is ignored
NoDuplicateCI(list) ==
    \A i, j \in DOMAIN list : Lower(list[i]) = Lower(list[j]) => i = j

\* score_resume_for_jd holds the JD's lists
JdListsBuilt == pc \in {"step2", "raised"}

\* C21: the JD's skill list and education list in score_resume_for_jd, and
\* the skill and education lists of a profile that combined_extraction
\* returns, never hold two entries that are equal when case is ignored.
C21_NoCaseDuplicates ==
    /\ JdListsBuilt => NoDuplicateCI(jd_skill_list) /\ NoDuplicateCI(jd_education)
    /\ results.returned => NoDuplicateCI(results.skills) /\ NoDuplicateCI(results.education)

-----------------------------------------------------------------------------
(* router.py: score_batch_resumes, from the resume loop on.  The JD has     *)
(* parsed and the number of uploads has been checked (1 to 50).  For each   *)
(* upload the model holds what happens to it: its extension is not          *)
(* allowed, parse_resume reports a failure, something in the loop body      *)
(* raises (score_resume_for_jd in particular), or score_resume_for_jd       *)
(* returns a result with a final score.                                     *)

Upload(filename, outcome, final_score) ==
    [filename |-> filename, outcome |-> outcome, final_score |-> final_score]

\* The entry appended for an upload that failed
FailedEntry(filename, message) ==
    [resume_filename |-> filename, success |-> FALSE, error |-> message, ats_score |-> RInt(0),
     decision |-> "", status |-> ""]

\* The entry appended for an upload that was scored
ScoredEntry(filename, final_score) ==
    [resume_filename |-> filename, success |-> TRUE, error |-> "", ats_score |-> final_score,
     decision |-> DecisionOf(final_score), status |-> StatusOf(final_score)]

\* The entry one pass of the loop body appends
EntryOf(file) ==
    CASE file.outcome = "unsupported" -> FailedEntry(file.filename, "Unsupported format")
      [] file.outcome = "unparsed" -> FailedEntry(file.filename, "Parsing failed")
      [] file.outcome = "raises" -> FailedEntry(file.filename, "exception")
      [] file.outcome = "scored" -> ScoredEntry(file.filename, file.final_score)

\* Mutant: an exception ends the loop
NextIndexStopOnRaise(i, outcome) ==
    IF outcome = "raises" THEN Len(resume_files) + 1 ELSE i + 1

\* The upload the loop takes after upload i: the next one, whatever happened
\* (continue, the end of the body, or the except clause)
NextIndex(i, outcome) == i + 1

\* x is placed after every entry whose score is at least its own
RECURSIVE InsertByScore(_, _)
InsertByScore(sorted, x) ==
    IF sorted = <<>> THEN <<x>>
    ELSE IF RLt(Head(sorted).ats_score, x.ats_score) THEN <<x>> \o sorted
    ELSE <<Head(sorted)>> \o InsertByScore(Tail(sorted), x)

\* Mutant: the successful results left in upload order
KeepUploadOrder(list) == list

\* list.sort(key=lambda x: x['ats_score'], reverse=True): highest first,
\* equal scores in their earlier order
RECURSIVE SortByScore(_)
SortByScore(list) ==
    IF list = <<>> THEN <<>>
    ELSE InsertByScore(SortByScore(SubSeq(list, 1, Len(list) - 1)), list[Len(list)])

\* One pass of the for loop: one entry is appended and one counter grows
BatchProcessResume ==
    /\ bpc = "loop"
    /\ file_idx <= Len(resume_files)
    /\ LET file == resume_files[file_idx]
           entry == EntryOf(file)
       IN  /\ batch_results' = Append(batch_results, entry)
           /\ successful_count' = IF entry.success THEN successful_count + 1 ELSE successful_count
           /\ failed_count' = IF entry.success THEN failed_count ELSE failed_count + 1
           /\ file_idx' = NextIndex(file_idx, file.outcome)
    /\ UNCHANGED <<bpc, resume_files, response>>
    /\ UNCHANGED outsideBatch

\* After the loop: the successful results sorted, then the failed ones, and
\* the response
BatchRespond ==
    /\ bpc = "loop"
    /\ file_idx > Len(resume_files)
    /\ LET successful_results == SelectSeq(batch_results, LAMBDA r : r.success)
           failed_results == SelectSeq(batch_results, LAMBDA r : ~r.success)
       IN  response' = [sent |-> TRUE, success |-> TRUE, total_resumes |-> Len(resume_files),
                        successful |-> successful_count, failed |-> failed_count,
                        results |-> SortByScore(successful_results) \o failed_results]
    /\ bpc' = "done"
    /\ UNCHANGED <<resume_files, file_idx, batch_results, successful_count, failed_count>>
    /\ UNCHANGED outsideBatch

(* The uploads *)

MaxResumes == 3

Uploads ==
    {Upload("notes.txt", "unsupported", RInt(0)), Upload("scan.pdf", "unparsed", RInt(0)),
     Upload("ann.pdf", "raises", RInt(0)), Upload("bob.pdf", "scored", RInt(40)),
     Upload("cy.docx", "scored", Rat(181, 2)), Upload("dee.pdf", "scored", Rat(181, 2))}

InitBatch ==
    /\ bpc = "loop"
    /\ resume_files \in SeqsUpTo(Uploads, MaxResumes) \ {<<>>}
    /\ file_idx = 1
    /\ batch_results = <<>>
    /\ successful_count = 0
    /\ failed_count = 0
    /\ response = [sent |-> FALSE]
    /\ OutsideBatchIdle

NextBatch ==
    \/ BatchProcessResume
    \/ BatchRespond

SpecBatch == InitBatch /\ [][NextBatch]_vars

-----------------------------------------------------------------------------
(* score_batch_resumes: one entry per upload *)

\* C22: every upload the loop has passed has exactly one result entry, in
\* upload order, under its file name; an upload that is unsupported, fails
\* to parse or raises while being scored has a failed entry with an error
\* string, and the uploads after it are still processed; in the response
\* successful + failed = total_resumes = the number of result entries = the
\* number of uploads.
C22_OneEntryPerResume ==
    /\ bpc \in {"loop", "done"} =>
          /\ Len(batch_results) = file_idx - 1
          /\ successful_count + failed_count = Len(batch_results)
          /\ \A k \in DOMAIN batch_results :
                /\ batch_results[k].resume_filename = resume_files[k].filename
                /\ batch_results[k].success = (resume_files[k].outcome = "scored")
                /\ ~batch_results[k].success => batch_results[k].error # ""
    /\ response.sent =>
          /\ response.successful + response.failed = response.total_resumes
          /\ response.total_resumes = Len(response.results)
          /\ response.total_resumes = Len(resume_files)
          /\ Len(batch_results) = Len(resume_files)

\* C22 witness: the first of three uploads raised while being scored, the
\* second was unsupported and the third was scored; the response counts one
\* success and two failures
C22_Witness ==
    /\ response.sent
    /\ Len(resume_files) = 3
    /\ resume_files[1].outcome = "raises"
    /\ resume_files[2].outcome = "unsupported"
    /\ resume_files[3].outcome = "scored"
    /\ batch_results[1].error = "exception"
    /\ batch_results[3].success
    /\ response.successful = 1
    /\ response.failed = 2

-----------------------------------------------------------------------------
(* score_resume_for_jd: does it always score? *)

\* score_resume_for_jd has returned or has been left by an exception
ScoreFinished == pc \in {"returned", "raised"}

\* C23: with the embedding model loaded, score_resume_for_jd ends by
\* returning a result with a numeric final score and a decision, for every
\* JD text and resume text (empty ones too) and whether or not the LLM
\* requests fail; it is never left by an exception.
C23_AlwaysScores ==
    ScoreFinished =>
        /\ pc = "returned"
        /\ score_error = ""
        /\ calc.returned
        /\ decision \in {"FIT", "UNFIT"}

-----------------------------------------------------------------------------
(* The LLM requests of one scoring *)

\* The extraction and the reconciliation requests made for the JD so far
JdExtractionCalls == IF lpc \in {"cleanup", "returned"} THEN 1 ELSE 0

JdCleanupCalls == IF lpc = "returned" THEN 1 ELSE 0

\* The requests made for the resume so far: combined_extraction makes them
\* at lines 257 and 277, after the step at which it raises
ResumeExtractionCalls == IF cpc = "returned" THEN 1 ELSE 0

ResumeCleanupCalls == IF cpc = "returned" THEN 1 ELSE 0

\* The second half of the statement below: a request is made once, failed
\* or not.
NoRequestRepeated ==
    /\ llm_calls = JdExtractionCalls + JdCleanupCalls
    /\ llm_failed \subseteq
           (IF JdExtractionCalls = 1 THEN {"extract"} ELSE {})
               \cup (IF JdCleanupCalls = 1 THEN {"cleanup"} ELSE {})

\* C24: when score_resume_for_jd ends, one extraction request has been made
\* for the JD and one for the resume, and one reconciliation request in
\* all; no request has been made twice.
C24_LlmCalls ==
    ScoreFinished =>
        /\ JdExtractionCalls = 1
        /\ ResumeExtractionCalls = 1
        /\ JdCleanupCalls + ResumeCleanupCalls = 1
        /\ NoRequestRepeated

-----------------------------------------------------------------------------
(* extract_yoe_from_jd and the requirements section *)

\* text.split(): the runs of characters other than whitespace
RECURSIVE Split(_)
Split(s) ==
    IF s = <<>> THEN <<>>
    ELSE IF Head(s) \in Whitespace THEN Split(Tail(s))
    ELSE LET stops == {i \in DOMAIN s : s[i] \in Whitespace}
             stop == IF stops = {} THEN Len(s) + 1
                     ELSE CHOOSE i \in stops : \A j \in stops : i <= j
         IN  <<SubSeq(s, 1, stop - 1)>> \o Split(SubSeq(s, stop + 1, Len(s)))

\* min_yoe when only these words are searched
MinYoeOf(words) ==
    LET found == FoundYoe(words)
    IN  IF found = <<>> THEN PyNotFound ELSE PyNum(best_match(found).min)

\* C25: when extract_requirements_section bounds a section of the JD text,
\* min_yoe is decided by the year mentions inside that section alone; when
\* there is no section it is decided by the whole text.
C25_SectionOnly ==
    (YoeReturned /\ ~NoText(jd_text)) =>
        yoe_result.min_yoe =
            IF requirements_section.found
            THEN MinYoeOf(Split(Lower(requirements_section.text)))
            ELSE MinYoeOf(Split(Lower(JoinSpace(jd_text.words))))

-----------------------------------------------------------------------------
(* extract_total_experience: each span once *)

\* The month-delta of the span on one line, 0 for a line without a span or
\* with a span that is not counted
SpanMonths(line, today) ==
    CASE line.kind = "range" -> IF RangeMonths(line) > 0 THEN RangeMonths(line) ELSE 0
      [] line.kind = "ongoing" ->
            IF OngoingMonths(line, today) > 0 THEN OngoingMonths(line, today) ELSE 0
      [] line.kind = "year" ->
            IF 0 < YearMonths(line, today) /\ YearMonths(line, today) <= 600
            THEN YearMonths(line, today) ELSE 0
      [] OTHER -> 0

\* C26: the total of extract_total_experience holds the month-delta of every
\* span of the experience section exactly once; a "<Month> <Year> - Present"
\* span counted by the month pattern is not counted again by the bare-year
\* pattern.
C26_EachSpanOnce ==
    xpc \in {"total", "returned"} =>
        total_months =
            SumOver(Section(exp_start, exp_end),
                    [k \in Section(exp_start, exp_end) |-> SpanMonths(resume_text[k], now)])

-----------------------------------------------------------------------------
(* extract_requirements_section: which header decides *)

\* extract_yoe_from_jd has just called extract_requirements_section on its
\* text
SectionComputed == ypc = "scan"

\* term stands in text at position i
StandsAt(text, term, i) ==
    /\ i + Len(term) - 1 <= Len(text)
    /\ SubSeq(text, i, i + Len(term) - 1) = term

\* An end marker matches at position i
EndMarkerAt(text, lower, i) ==
    \/ CapsHeaderAt(text, i)
    \/ BoldHeaderAt(text, i)
    \/ \E e \in DOMAIN end_section_phrases :
          StandsAt(lower, Lower(end_section_phrases[e]), i)

\* The least element of a non-empty set of numbers
Least(S) == CHOOSE x \in S : \A y \in S : x <= y

\* C27 as stated: the first header of the list that occurs in the text
\* decides; the result is its section, bounded at the earliest end marker
\* after it, if that section is longer than 100 characters, and None
\* otherwise.
C27_FirstHeader ==
    SectionComputed =>
        LET text == JoinSpace(jd_text.words)
            occurring == {h \in DOMAIN section_headers : HeaderStart(Lower(text), h) # 0}
        IN  IF occurring = {} THEN ~requirements_section.found
            ELSE LET first == SectionOf(text, Least(occurring))
                 IN  IF Len(first.text) > MinSectionChars
                     THEN requirements_section.found /\ requirements_section.text = first.text
                     ELSE ~requirements_section.found

\* C27 amended: the first header of the list whose section, bounded at the
\* earliest end marker at or after the header's first match, has more than
\* 100 characters once stripped decides, and the result is None only when
\* no header has such a section; a result that is not None is a contiguous
\* part of the text that starts at a match of that header, ends at the
\* earliest end marker or at the end of the text, and is longer than 100
\* characters.
C27_FirstMeaningfulHeader ==
    SectionComputed =>
        LET text == JoinSpace(jd_text.words)
            lower == Lower(text)
            good == {h \in DOMAIN section_headers : Meaningful(SectionOf(text, h))}
            r == requirements_section
        IN  IF good = {} THEN ~r.found
            ELSE /\ r.found
                 /\ r.header = Least(good)
                 /\ r.text = SubSeq(text, r.start_pos, r.end_pos - 1)
                 /\ StandsAt(lower, Lower(section_headers[r.header]), r.start_pos)
                 /\ \A i \in 1..(r.start_pos - 1) :
                        ~StandsAt(lower, Lower(section_headers[r.header]), i)
                 /\ \A i \in r.start_pos..(r.end_pos - 1) : ~EndMarkerAt(text, lower, i)
                 /\ r.end_pos = Len(text) + 1 \/ EndMarkerAt(text, lower, r.end_pos)
                 /\ Len(r.text) > MinSectionChars

\* C27 witness: REQUIREMENTS occurs in the text and its section is too
\* short, and the result is the section of EXPERIENCE, a header later in the
\* list, which an end marker bounds before the end of the text
C27_Witness ==
    /\ SectionComputed
    /\ HeaderStart(Lower(JoinSpace(jd_text.words)), 5) # 0
    /\ requirements_section.found
    /\ requirements_section.header = 9
    /\ requirements_section.end_pos <= Len(JoinSpace(jd_text.words))

-----------------------------------------------------------------------------
(* combined_extraction: the LLM's identity fields *)

\* C28: combined_extraction returns a profile whose name is the LLM's name
\* when the LLM returned a non-empty one, and the name found by the earlier
\* sources when the LLM's name is empty or the LLM request failed.
C28_LlmOverrides ==
    ResumeFinished =>
        /\ cpc = "returned"
        /\ results.returned
        /\ IF llm_up
           THEN \E reply \in ExtractReplies :
                    results.name = IF reply.name # <<>> THEN <<reply.name>>
                                   ELSE FirstResults(first_line).name
           ELSE results.name = FirstResults(first_line).name

-----------------------------------------------------------------------------
(* score_batch_resumes: the order of the response *)

\* The ways to rearrange n entries
Rearrangements(n) ==
    {p \in [1..n -> 1..n] : \A a, b \in 1..n : a # b => p[a] # p[b]}

\* C29: in the batch response every successful entry stands before every
\* failed one, the successful entries are in non-increasing order of
\* ats_score, the failed entries keep their upload order, and the results
\* are the entries the loop appended, only rearranged.
C29_ResponseOrder ==
    response.sent =>
        LET res == response.results
            n == Len(res)
        IN  /\ \A i, j \in 1..n : (i < j /\ res[j].success) => res[i].success
            /\ \A i, j \in 1..n :
                  (i < j /\ res[i].success /\ res[j].success)
                      => RLeq(res[j].ats_score, res[i].ats_score)
            /\ SelectSeq(res, LAMBDA r : ~r.success)
                  = SelectSeq(batch_results, LAMBDA r : ~r.success)
            /\ n = Len(batch_results)
            /\ \E p \in Rearrangements(n) : \A k \in 1..n : res[k] = batch_results[p[k]]

\* C29 witness: the first upload raised, the second scored 40 and the third
\* 90.5; the response lists the third, the second, then the first
C29_Witness ==
    /\ response.sent
    /\ Len(resume_files) = 3
    /\ ~batch_results[1].success
    /\ batch_results[2].success /\ batch_results[2].ats_score = RInt(40)
    /\ batch_results[3].success /\ batch_results[3].ats_score = Rat(181, 2)
    /\ response.results[1] = batch_results[3]
    /\ response.results[2] = batch_results[2]
    /\ response.results[3] = batch_results[1]

-----------------------------------------------------------------------------
(* calculate_ats_score: more experience, no lower experience score *)

\* The call scored a resume against a numeric JD requirement above 0
NumericRequirement == Returned /\ ~IsNotFound(jd_yoe) /\ jd_yoe.num > 0

\* C30 as stated: for a numeric JD requirement above 0, a resume with fewer
\* years, any value from 0 on, never has a higher experience score than the
\* resume this call scored.
C30_MonotoneFromZero ==
    NumericRequirement =>
        \A less \in ResumeYoeInputs :
            RLeq(less, resume_yoe) => RLeq(YoeScore(jd_yoe, less), calc.yoe_score)

\* C30 amended: for a numeric JD requirement above 0, a resume with fewer
\* years, any value above 0, never has a higher experience score than the
\* resume this call scored.
C30_MonotoneAboveZero ==
    NumericRequirement =>
        \A less \in ResumeYoeInputs :
            (RLt(RInt(0), less) /\ RLeq(less, resume_yoe))
                => RLeq(YoeScore(jd_yoe, less), calc.yoe_score)

\* C30 witness: against a requirement of 7 years a resume of 3 years scores
\* above the floor of 8 that a resume of half a year gets
C30_Witness ==
    /\ NumericRequirement
    /\ jd_yoe.num = 7
    /\ resume_yoe = RInt(3)
    /\ YoeScore(jd_yoe, Rat(5, 10)) = RInt(8)
    /\ RLt(RInt(8), calc.yoe_score)
    /\ RLt(calc.yoe_score, RInt(15))

====
